---- MODULE Spec2Model ----
(***************************************************************************)
(* A model of the kaelfdl/neuralnets notebooks: the hand-written LSTM unit *)
(* (LSTM / LSTMbyHand), its training and resume cells, and the decoder-only *)
(* transformer (PositionEncoding, Attention, DecoderTransformer, predict).  *)
(*                                                                          *)
(* Numbers.  A tensor element is a fixed-point number: the integer n stands *)
(* for n / Scale.  Products and quotients are rounded to the nearest unit.  *)
(* exp, sigmoid, tanh and softmax are computed on that grid.                *)
(***************************************************************************)
EXTENDS Integers, Sequences, FiniteSets, TLC

\* ------------------------------------------------------------------ bounds
\* Fixed-point unit: n stands for n / Scale.
Scale == 1000
\* Range on which exp is summed as a series; larger arguments are halved.
ExpRange == 4000
\* Number of series terms of exp.
ExpTerms == 24
\* Model seeds tried are the notebook's seed .. seed + ExtraSeeds.
ExtraSeeds == 4
\* Input sequences tried besides the two rows of the dataset.
ExtraInputs == 4
\* Forward calls made on one LSTM instance.
MaxCalls == 3
\* Seed sequences of predict hold token ids 0 .. MaxSeedToken.
MaxSeedToken == 1
\* The epochs a cell is run with are 0 .. MaxEpochs.
MaxEpochs == 3
\* Applications of lstm_unit in a row, from the memories (0, 0).
MaxApplications == 6
\* Resume cells run after the training cell.
MaxResumes == 2

\* Python's None, and a variable not yet assigned.
None == << >>

\* ------------------------------------------------------- fixed-point maths
Abs(a) == IF a < 0 THEN -a ELSE a

\* a / b rounded to the nearest integer (b > 0), halves away from zero.
RDiv(a, b) ==
    IF a >= 0 THEN (2 * a + b) \div (2 * b)
              ELSE -((2 * (-a) + b) \div (2 * b))

\* The product of two fixed-point numbers.
Mul(a, b) == RDiv(a * b, Scale)

\* sum_{k} y^k / k!, for 0 <= y <= ExpRange
RECURSIVE ExpSeries(_, _, _, _)
ExpSeries(y, k, term, acc) ==
    IF term = 0 \/ k > ExpTerms THEN acc
    ELSE ExpSeries(y, k + 1, RDiv(term * y, k * Scale), acc + term)

\* exp(-y) for y >= 0: a value in 0 .. Scale.
RECURSIVE ExpNeg(_)
ExpNeg(y) ==
    IF y > ExpRange
    THEN Mul(ExpNeg(y \div 2), ExpNeg(y - (y \div 2)))
    ELSE RDiv(Scale * Scale, ExpSeries(y, 1, Scale, 0))

\* torch.sigmoid
Sigmoid(x) ==
    LET e == ExpNeg(Abs(x))
    IN  IF x >= 0 THEN RDiv(Scale * Scale, Scale + e)
                  ELSE RDiv(e * Scale, Scale + e)

\* torch.tanh: (1 - e^(-2|x|)) / (1 + e^(-2|x|)), with e^(-2|x|) kept as the
\* unrounded square of e^(-|x|), so that tanh(4) is below 1 as it is in
\* float32
Tanh(x) ==
    LET e == ExpNeg(Abs(x))
        t == RDiv((Scale * Scale - e * e) * Scale, Scale * Scale + e * e)
    IN  IF x >= 0 THEN t ELSE -t

\* ------------------------------------------------------------ LSTM: model
\* torch.manual_seed(seed=18)
lstm_seed == 18

\* The pseudo-random generator seeded by torch.manual_seed: its state after
\* k draws from seed s.
RECURSIVE Rng(_, _)
Rng(s, k) == IF k = 0 THEN s % 65537 ELSE (Rng(s, k - 1) * 75 + 74) % 65537

\* torch.normal(mean=0, std=1): the k-th draw, a value in -1.5 .. 1.5.
Normal(s, k) == ((Rng(s, k) % 13) - 6) * (Scale \div 4)

ParamNames ==
    {"wlr1", "wlr2", "blr1", "wpr1", "wpr2", "bpr1",
     "wp1", "wp2", "bp1", "wo1", "wo2", "bo1"}

\* LSTM.__init__: eight weights drawn in order, four biases 0.0
LSTM(s) ==
    [wlr1 |-> Normal(s, 1), wlr2 |-> Normal(s, 2), blr1 |-> 0,
     wpr1 |-> Normal(s, 3), wpr2 |-> Normal(s, 4), bpr1 |-> 0,
     wp1  |-> Normal(s, 5), wp2  |-> Normal(s, 6), bp1  |-> 0,
     wo1  |-> Normal(s, 7), wo2  |-> Normal(s, 8), bo1  |-> 0]

\* lstm_unit(self, input_value, long_memory, short_memory)
long_remember_percent(self, input_value, short_memory) ==
    Sigmoid(Mul(short_memory, self.wlr1) + Mul(input_value, self.wlr2) + self.blr1)

potential_remember_percent(self, input_value, short_memory) ==
    Sigmoid(Mul(short_memory, self.wpr1) + Mul(input_value, self.wpr2) + self.bpr1)

potential_memory(self, input_value, short_memory) ==
    Tanh(Mul(short_memory, self.wp1) + Mul(input_value, self.wp2) + self.bp1)

\* A slip: the output gate given the bias bo1.
output_percent_with_bias(self, input_value, short_memory) ==
    Sigmoid(Mul(short_memory, self.wo1) + Mul(input_value, self.wo2) + self.bo1)

output_percent(self, input_value, short_memory) ==
    Sigmoid(Mul(short_memory, self.wo1) + Mul(input_value, self.wo2))

\* A slip: the short-term memory computed from the prior long-term memory.
updated_short_memory_stale(self, input_value, long_memory, short_memory) ==
    Mul(Tanh(long_memory), output_percent(self, input_value, short_memory))

updated_long_memory(self, input_value, long_memory, short_memory) ==
    Mul(long_memory, long_remember_percent(self, input_value, short_memory))
    + Mul(potential_remember_percent(self, input_value, short_memory),
          potential_memory(self, input_value, short_memory))

\* A slip: the output gate added to the squashed memory, not multiplied.
updated_short_memory_added(self, input_value, long_memory, short_memory) ==
    Tanh(updated_long_memory(self, input_value, long_memory, short_memory))
    + output_percent(self, input_value, short_memory)

updated_short_memory(self, input_value, long_memory, short_memory) ==
    Mul(Tanh(updated_long_memory(self, input_value, long_memory, short_memory)),
        output_percent(self, input_value, short_memory))

lstm_unit(self, input_value, long_memory, short_memory) ==
    << updated_long_memory(self, input_value, long_memory, short_memory),
       updated_short_memory(self, input_value, long_memory, short_memory) >>

\* A slip: the memory kept as attributes and not reset on entry.
forward_entry_leak(long_memory, short_memory) == << long_memory, short_memory >>

\* forward: long_memory = 0; short_memory = 0
forward_entry(long_memory, short_memory) == << 0, 0 >>

\* A slip: the days consumed last to first.
day_reversed(X, n) == X[5 - n]

\* forward: day1 = X[0] .. day4 = X[3], consumed in that order
day(X, n) == X[n]

\* forward: return short_memory
forward_return(long_memory, short_memory) == short_memory

\* inputs = torch.tensor([[0., 0.5, 0.25, 1.], [1., 0.5, 0.25, 1.]])
inputs == << << 0, Scale \div 2, Scale \div 4, Scale >>,
             << Scale, Scale \div 2, Scale \div 4, Scale >> >>

\* labels = torch.tensor([0., 1.])
labels == << 0, Scale >>

\* The input sequences tried: the two rows of the dataset and ExtraInputs
\* sequences of quarters in 0 .. 1.
OtherInput(k) == [n \in 1 .. 4 |-> (((k + 1) * (n + k)) % 5) * (Scale \div 4)]
Inputs == { inputs[1], inputs[2] } \cup { OtherInput(k) : k \in 1 .. ExtraInputs }

\* --------------------------------------------------------- decoder: model
\* token_to_id
token_to_id ==
    [t \in {"what", "is", "kael", "awesome", "<EOS>"} |->
        CASE t = "what" -> 0
          [] t = "is" -> 1
          [] t = "kael" -> 2
          [] t = "awesome" -> 3
          [] t = "<EOS>" -> 4]

\* id_to_token = dict(map(reversed, token_to_id.items()))
id_to_token ==
    [i \in { token_to_id[t] : t \in DOMAIN token_to_id } |->
        CHOOSE t \in DOMAIN token_to_id : token_to_id[t] = i]

\* seed = 45
seed == 45
\* DecoderTransformer(num_tokens=len(token_to_id), d_model=2, max_len=6)
num_tokens == Cardinality(DOMAIN token_to_id)
d_model == 2
max_len == 6
\* predict: max_length = 6
max_length == 6
\* masked_fill(mask=mask, value=1e-9): the value is MaskNum / MaskDen
MaskNum == 1
MaskDen == 1000000000

TokenIds == 0 .. num_tokens - 1

\* sin and cos by their series, on fixed-point radians.
RECURSIVE TrigSeries(_, _, _, _)
TrigSeries(x, k, term, acc) ==
    IF term = 0 \/ k > ExpTerms THEN acc
    ELSE TrigSeries(x, k + 2,
                    -RDiv(Mul(term, x) * x, (k + 1) * (k + 2) * Scale),
                    acc + term)

Sin(x) == TrigSeries(x, 1, x, 0)
Cos(x) == TrigSeries(x, 0, Scale, 0)

RECURSIVE Pow(_, _)
Pow(b, e) == IF e = 0 THEN 1 ELSE b * Pow(b, e - 1)

\* div_term = 1 / 10000 ** (embedding_index / d_model), for the even
\* embedding_index i (d_model a divisor of 4 * i)
div_term(i) == RDiv(Scale, Pow(10, (4 * i) \div d_model))

\* A slip: the cosine in the even dimensions and the sine in the odd ones.
PositionEncoding_cos_first ==
    [row \in 1 .. max_len |-> [c \in 1 .. d_model |->
        LET pos == (row - 1) * Scale
            embedding_index == 2 * ((c - 1) \div 2)
            angle == Mul(pos, div_term(embedding_index))
        IN  IF (c - 1) % 2 = 0 THEN Cos(angle) ELSE Sin(angle)] \o << >>] \o << >>

\* PositionEncoding.__init__: pe[pos, 0::2] = sin, pe[pos, 1::2] = cos.
\* Row pos + 1 is position pos; column c is embedding dimension c - 1.
PositionEncoding ==
    [row \in 1 .. max_len |-> [c \in 1 .. d_model |->
        LET pos == (row - 1) * Scale
            embedding_index == 2 * ((c - 1) \div 2)
            angle == Mul(pos, div_term(embedding_index))
        IN  IF (c - 1) % 2 = 0 THEN Sin(angle) ELSE Cos(angle)] \o << >>] \o << >>

\* A tensor is a tuple of its elements (of its rows): Tensor(f) is the
\* function f on 1 .. n as that tuple.  Row and column k of the model are
\* index k - 1 of the source; the row of token id t is row t + 1.
Tensor(f) == f \o << >>

\* nn.Linear / nn.Embedding initialisation: the k-th draw of the generator,
\* a value in -0.7 .. 0.7 (Linear) or -1.5 .. 1.5 (Embedding, Normal above).
Uniform(s, k) == ((Rng(s, k) % 15) - 7) * (Scale \div 10)

\* A rows x cols matrix of draws, the first being draw number first.
Drawn(s, first, rows, cols, normal) ==
    Tensor([r \in 1 .. rows |-> Tensor([c \in 1 .. cols |->
        IF normal THEN Normal(s, first + (r - 1) * cols + (c - 1))
                  ELSE Uniform(s, first + (r - 1) * cols + (c - 1))])])

\* A table filled from the generator
new_pe_drawn(s) == Drawn(s, 1, max_len, d_model, FALSE)

\* self.pe = PositionEncoding(d_model=d_model, max_len=max_len), constructed
\* after torch.manual_seed(seed): the table of the new instance
new_pe(s) == PositionEncoding

\* DecoderTransformer.__init__: we, W_q, W_k, W_v, fc_layer drawn in order
\* after torch.manual_seed(seed).
DecoderTransformer(s) ==
    [pe   |-> new_pe(s),
     we   |-> Drawn(s, 1, num_tokens, d_model, TRUE),
     W_q  |-> Drawn(s, 1 + num_tokens * d_model, d_model, d_model, FALSE),
     W_k  |-> Drawn(s, 1 + (num_tokens + d_model) * d_model,
                    d_model, d_model, FALSE),
     W_v  |-> Drawn(s, 1 + (num_tokens + 2 * d_model) * d_model,
                    d_model, d_model, FALSE),
     fc_w |-> Drawn(s, 1 + (num_tokens + 3 * d_model) * d_model,
                    num_tokens, d_model, FALSE),
     fc_b |-> Drawn(s, 1 + (2 * num_tokens + 3 * d_model) * d_model,
                    1, num_tokens, FALSE)[1]]

\* PositionEncoding.forward: word_embeddings + self.pe[:word_embeddings.size(0)]
pe_forward(pe, word_embeddings) ==
    Tensor([k \in 1 .. Len(word_embeddings) |-> Tensor([c \in 1 .. d_model |->
        word_embeddings[k][c] + pe[k][c]])])

\* The inner product of two vectors of d_model elements.
RECURSIVE DotTo(_, _, _)
DotTo(a, b, n) == IF n = 0 THEN 0 ELSE DotTo(a, b, n - 1) + a[n] * b[n]
Dot(a, b) == RDiv(DotTo(a, b, d_model), Scale)

\* nn.Linear(bias=False): y = x W^T, one row of x at a time
Linear(W, x) ==
    Tensor([k \in 1 .. Len(x) |-> Tensor([o \in 1 .. Len(W) |-> Dot(W[o], x[k])])])

\* k.size(col_dim) ** 0.5
SqrtD == CHOOSE r \in 0 .. 2 * Scale :
            r * r <= d_model * Scale * Scale
            /\ (r + 1) * (r + 1) > d_model * Scale * Scale

\* sims = torch.matmul(q, k.transpose(dim0=row_dim, dim1=col_dim))
sims_of(q, k) ==
    Tensor([a \in 1 .. Len(q) |-> Tensor([b \in 1 .. Len(k) |-> Dot(q[a], k[b])])])

\* scaled_sims = sims / torch.tensor(k.size(col_dim) ** 0.5)
scaled_sims_of(sims) ==
    Tensor([a \in 1 .. Len(sims) |-> Tensor([b \in 1 .. Len(sims[a]) |->
        RDiv(sims[a][b] * Scale, SqrtD)])])

\* A slip: the diagonal left out of the lower triangle.
tril_strict(n) ==
    Tensor([a \in 1 .. n |-> Tensor([b \in 1 .. n |-> IF b < a THEN 1 ELSE 0])])

\* torch.tril(torch.ones((n, n)))
tril(n) ==
    Tensor([a \in 1 .. n |-> Tensor([b \in 1 .. n |-> IF b <= a THEN 1 ELSE 0])])

\* mask = mask == 0
causal_mask(n) ==
    LET ones == tril(n)
    IN  Tensor([a \in 1 .. n |-> Tensor([b \in 1 .. n |-> ones[a][b] = 0])])

\* The fill value on the fixed-point grid.
MaskValue == RDiv(MaskNum * Scale, MaskDen)

\* A slip: the disallowed entries filled with a value that stands for
\* negative infinity, the least the exponential is computed for.
masked_fill_neg_inf(sims, m) ==
    Tensor([a \in 1 .. Len(sims) |-> Tensor([b \in 1 .. Len(sims[a]) |->
        IF m[a][b] THEN - ExpRange * Scale ELSE sims[a][b]])])

\* scaled_sims.masked_fill(mask=mask, value=1e-9)
masked_fill(sims, m) ==
    Tensor([a \in 1 .. Len(sims) |-> Tensor([b \in 1 .. Len(sims[a]) |->
        IF m[a][b] THEN MaskValue ELSE sims[a][b]])])

RECURSIVE MaxOf(_, _)
MaxOf(row, n) ==
    IF n = 1 THEN row[1]
    ELSE LET m == MaxOf(row, n - 1) IN IF row[n] > m THEN row[n] ELSE m

RECURSIVE SumOf(_, _)
SumOf(row, n) == IF n = 0 THEN 0 ELSE SumOf(row, n - 1) + row[n]

\* A softmax that divides by the largest exponential, not by their sum
softmax_by_max(row) ==
    LET n == Len(row)
        m == MaxOf(row, n)
    IN  Tensor([b \in 1 .. n |-> ExpNeg(m - row[b])])

\* F.softmax(row): exp(x - max) / sum exp(x - max)
softmax(row) ==
    LET n == Len(row)
        m == MaxOf(row, n)
        e == Tensor([b \in 1 .. n |-> ExpNeg(m - row[b])])
        total == SumOf(e, n)
    IN  Tensor([b \in 1 .. n |-> RDiv(e[b] * Scale, total)])

\* Attention.forward up to attention_percents = F.softmax(scaled_sims, dim=1)
attention_percents_of(self, enc_q, enc_k, m) ==
    LET q == Linear(self.W_q, enc_q)
        k == Linear(self.W_k, enc_k)
        sims == sims_of(q, k)
        scaled == scaled_sims_of(sims)
        filled == IF m = None THEN scaled ELSE masked_fill(scaled, m)
    IN  Tensor([a \in 1 .. Len(filled) |-> softmax(filled[a])])

\* attention_scores = torch.matmul(attention_percents, v)
attention_scores(self, percents, enc_v) ==
    LET v == Linear(self.W_v, enc_v)
        n == Len(v)
    IN  Tensor([a \in 1 .. Len(percents) |-> Tensor([c \in 1 .. d_model |->
            RDiv(SumOf(Tensor([b \in 1 .. n |-> percents[a][b] * v[b][c]]), n),
                 Scale)])])

\* residual_connection_values = position_encoded + self_attention_values
residual_connection(position_encoded, self_attention_values) ==
    Tensor([k \in 1 .. Len(position_encoded) |-> Tensor([c \in 1 .. d_model |->
        position_encoded[k][c] + self_attention_values[k][c]])])

\* fc_layer_output = self.fc_layer(residual_connection_values)
fc_layer(self, values) ==
    Tensor([k \in 1 .. Len(values) |-> Tensor([t \in 1 .. num_tokens |->
        Dot(self.fc_w[t], values[k]) + self.fc_b[t]])])

\* word_embeddings = self.we(token_ids); position_encoded = self.pe(...)
position_encoded_of(self, token_ids) ==
    pe_forward(self.pe,
        Tensor([k \in 1 .. Len(token_ids) |-> self.we[token_ids[k] + 1]]))

\* DecoderTransformer.forward(token_ids): the logits, one row per position
decoder_forward(self, token_ids) ==
    LET position_encoded == position_encoded_of(self, token_ids)
        m == causal_mask(Len(token_ids))
        percents == attention_percents_of(self, position_encoded,
                                          position_encoded, m)
    IN  fc_layer(self,
            residual_connection(position_encoded,
                attention_scores(self, percents, position_encoded)))

\* A slip: the index counted from 1, as a token id.
argmax_from_one(row) ==
    CHOOSE t \in 1 .. Len(row) :
        /\ \A u \in 1 .. Len(row) : row[u] <= row[t]
        /\ \A u \in 1 .. Len(row) : u < t => row[u] < row[t]

\* torch.argmax(row): the first index holding the largest value, as a token id
argmax(row) ==
    (CHOOSE t \in 1 .. Len(row) :
        /\ \A u \in 1 .. Len(row) : row[u] <= row[t]
        /\ \A u \in 1 .. Len(row) : u < t => row[u] < row[t]) - 1

\* ------------------------------------------------------ training: model
\* forward(self, X) as one value: the four steps from the memory of entry
forward(self, x) ==
    LET m0 == forward_entry(0, 0)
        m1 == lstm_unit(self, day(x, 1), m0[1], m0[2])
        m2 == lstm_unit(self, day(x, 2), m1[1], m1[2])
        m3 == lstm_unit(self, day(x, 3), m2[1], m2[2])
        m4 == lstm_unit(self, day(x, 4), m3[1], m3[2])
    IN  forward_return(m4[1], m4[2])

\* loss = (y - output) ** 2
squared_error(y, out) == Mul(y - out, y - out)

\* Adam(model.parameters(), lr=0.1)
lr == Scale \div 10

\* The step by which loss.backward() is approximated: a twentieth.
GradStep == Scale \div 20

Sign(a) == IF a > 0 THEN 1 ELSE IF a < 0 THEN -1 ELSE 0

\* loss.backward(): the sign of the derivative of the loss on (x, y) in the
\* parameter name, by a central difference on the fixed-point grid
backward(self, x, y) ==
    [name \in ParamNames |->
        Sign(squared_error(y, forward([self EXCEPT ![name] = @ + GradStep], x))
             - squared_error(y, forward([self EXCEPT ![name] = @ - GradStep], x)))]

\* A slip: bo1 among the parameters the loss is computed from.
graph_parameters_with_bo1 == ParamNames

\* The parameters lstm_unit reads, those the loss is computed from: all but
\* bo1, which output_percent leaves out.
graph_parameters ==
    { "wlr1", "wlr2", "blr1", "wpr1", "wpr2", "bpr1",
      "wp1", "wp2", "bp1", "wo1", "wo2" }

\* optimizer.zero_grad(): every .grad is None
zero_grad == [name \in ParamNames |-> None]

\* Adam(model.parameters(), lr=0.1): a new instance, no step taken
Adam == [step |-> 0, exp_avg |-> zero_grad]

\* optimizer.step() on the parameters: each parameter that has a gradient
\* moves by lr against it; one whose .grad is None is skipped
adam_step(self, g) ==
    [name \in ParamNames |->
        IF g[name] = None THEN self[name] ELSE self[name] - lr * g[name][1]]

\* optimizer.step() on the optimizer's own state
adam_state(opt, g) == [step |-> opt.step + 1, exp_avg |-> g]

\* ----------------------------------------------- decoder training: model
\* inputs and labels of the decoder notebook: two sequences of five tokens
\* and, for every position, the token that follows
decoder_inputs ==
    << << token_to_id["what"], token_to_id["is"], token_to_id["kael"],
          token_to_id["<EOS>"], token_to_id["awesome"] >>,
       << token_to_id["kael"], token_to_id["is"], token_to_id["what"],
          token_to_id["<EOS>"], token_to_id["awesome"] >> >>

decoder_labels ==
    << << token_to_id["is"], token_to_id["kael"], token_to_id["<EOS>"],
          token_to_id["awesome"], token_to_id["<EOS>"] >>,
       << token_to_id["is"], token_to_id["what"], token_to_id["<EOS>"],
          token_to_id["awesome"], token_to_id["<EOS>"] >> >>

\* The natural logarithm of y >= 1 on the grid: 2 * atanh((y - 1) / (y + 1))
RECURSIVE AtanhSeries(_, _, _, _)
AtanhSeries(z, k, power, acc) ==
    IF power = 0 \/ k > ExpTerms THEN acc
    ELSE AtanhSeries(z, k + 2, Mul(Mul(power, z), z), acc + RDiv(power, k))

Ln(y) == LET z == RDiv((y - Scale) * Scale, y + Scale)
         IN  2 * AtanhSeries(z, 1, z, 0)

\* -log_softmax(row)[label]: log sum exp(row) - row[label]
nll(row, label) ==
    LET n == Len(row)
        m == MaxOf(row, n)
        e == Tensor([b \in 1 .. n |-> ExpNeg(m - row[b])])
    IN  m + Ln(SumOf(e, n)) - row[label + 1]

\* nn.CrossEntropyLoss()(output, labels): the mean over the positions
cross_entropy(out, target) ==
    RDiv(SumOf(Tensor([k \in 1 .. Len(out) |-> nll(out[k], target[k])]),
               Len(out)),
         Len(out))

\* training_step: output = self(input_tokens[0]); loss = self.loss(...)
training_loss(self, b) ==
    cross_entropy(decoder_forward(self, decoder_inputs[b]), decoder_labels[b])

\* The positional encoding table registered as a parameter
decoder_parameters_with_pe == { "pe", "we", "W_q", "W_k", "W_v", "fc_w", "fc_b" }

\* model.parameters(): the weights of we, W_q, W_k, W_v and fc_layer; pe is
\* a buffer (register_buffer), not a parameter
decoder_parameters == { "we", "W_q", "W_k", "W_v", "fc_w", "fc_b" }

\* loss.backward() on example b: for every entry of every parameter the
\* sign of the derivative of the loss, by a central difference on the grid
decoder_backward(self, b) ==
    [name \in decoder_parameters |->
        IF name = "fc_b"
        THEN Tensor([c \in 1 .. Len(self[name]) |->
                Sign(training_loss([self EXCEPT ![name][c] = @ + GradStep], b)
                     - training_loss([self EXCEPT ![name][c] = @ - GradStep], b))])
        ELSE Tensor([r \in 1 .. Len(self[name]) |->
                Tensor([c \in 1 .. Len(self[name][r]) |->
                    Sign(training_loss(
                             [self EXCEPT ![name][r][c] = @ + GradStep], b)
                         - training_loss(
                             [self EXCEPT ![name][r][c] = @ - GradStep], b))])])]

\* optimizer.step(): every entry of every parameter moves by lr against
\* its gradient; what is no parameter stays
decoder_adam_step(self, g) ==
    [name \in DOMAIN self |->
        IF name \notin DOMAIN g THEN self[name]
        ELSE IF name = "fc_b"
        THEN Tensor([c \in 1 .. Len(self[name]) |->
                self[name][c] - lr * g[name][c]])
        ELSE Tensor([r \in 1 .. Len(self[name]) |->
                Tensor([c \in 1 .. Len(self[name][r]) |->
                    self[name][r][c] - lr * g[name][r][c]])])]

\* ------------------------------------------------------------------ state
VARIABLES
    \* the LSTM notebook
    model,          \* the LSTM instance: its twelve parameters
    pc,             \* where forward is: "idle", "day1" .. "day4", "return"
    X,              \* the argument of the running (or last) forward call
    long_memory,    \* forward's local long_memory
    short_memory,   \* forward's local short_memory
    steps,          \* the input values lstm_unit has consumed in this call
    result,         \* the value the last forward call returned
    calls,          \* forward calls started so far
    firstX,         \* the argument of the first completed call
    firstOut,       \* what that call returned
    \* the decoder notebook
    decoder,        \* the DecoderTransformer instance: its parameters and pe
    dpc,            \* where predict is: "idle", "loop", "print", "done"
    caller_input,   \* the notebook's model_input, the argument of predict
    model_input,    \* predict's local model_input
    input_length,   \* predict's input_length
    predictions,    \* the logits the last forward pass returned
    mask,           \* the mask the last forward pass built
    attention_percents, \* the attention weights of the last forward pass
    predicted_id,   \* predict's predicted_id
    predicted_ids,  \* predict's predicted_ids
    i,              \* the next value of the loop variable of predict
    passes,         \* forward passes run by this call of predict
    iterations,     \* iterations of the loop of predict begun by this call
    printed,        \* the tokens predict printed
    \* the training and resume cells of the LSTM notebook
    tpc,            \* where the running cell is: "idle", "for_epoch",
                    \* "forward", "backward", "step", "epoch_end"
    cell,           \* the cell last started: "none", "train", "resume"
    resumes,        \* resume cells started so far
    epochs,         \* the notebook's epochs
    epoch,          \* the notebook's epoch (loop variable or checkpoint's)
    next_epoch,     \* the next value of range(...) of the epoch loop
    batch,          \* the index of the example in hand
    total_loss,     \* the notebook's total_loss
    outputs,        \* the notebook's outputs
    output,         \* the notebook's output
    loss,           \* the notebook's loss
    grads,          \* the .grad of every parameter (None: no gradient)
    optimizer,      \* the state of the Adam instance
    checkpoint,     \* the file at model_path (None: no file)
    writer,         \* what the current SummaryWriter was given
    stdout,         \* the "Epoch: k / n" lines printed so far
    \* the training cell of the decoder notebook
    decoder_tpc,        \* where the cell is: "idle", "for_epoch", "batch",
                        \* "print", "trained"
    decoder_epochs,     \* its epochs
    decoder_epoch,      \* its epoch
    decoder_next_epoch, \* the next value of range(epochs)
    batch_idx,          \* the index of the example in hand
    decoder_loss,       \* the loss the last training_step returned
    decoder_total_loss, \* its total_loss
    decoder_optimizer,  \* the Adam instance of the cell: its step count
    decoder_stdout,     \* the "Epoch: k / n" lines the cell printed
    \* the evaluation cells of the LSTM notebook
    evaluated           \* the predictions for Company A and Company B that
                        \* the last evaluation printed

lstmVars == << model, pc, X, long_memory, short_memory, steps, result, calls,
               firstX, firstOut >>

decoderVars == << decoder, dpc, caller_input, model_input, input_length,
                  predictions, mask, attention_percents, predicted_id,
                  predicted_ids, i, passes, iterations, printed >>

trainVars == << tpc, cell, resumes, epochs, epoch, next_epoch, batch,
               total_loss, outputs, output, loss, grads, optimizer,
               checkpoint, writer, stdout >>

\* forward's own variables and the records of its calls
callVars == << pc, X, long_memory, short_memory, steps, result, calls,
               firstX, firstOut >>

fitVars == << decoder_tpc, decoder_epochs, decoder_epoch, decoder_next_epoch,
             batch_idx, decoder_loss, decoder_total_loss, decoder_optimizer,
             decoder_stdout >>

evalVars == << evaluated >>

\* predict's own variables
predictVars == << dpc, caller_input, model_input, input_length, predictions,
                 mask, attention_percents, predicted_id, predicted_ids, i,
                 passes, iterations, printed >>

vars == << lstmVars, decoderVars, trainVars, fitVars, evalVars >>

\* ------------------------------------------------------- LSTM: operations
\* The LSTM notebook after model = LSTM(), for the seed s.
LstmConstructed(s) ==
    /\ model = LSTM(s)
    /\ pc = "idle"
    /\ X = None
    /\ long_memory = 0
    /\ short_memory = 0
    /\ steps = << >>
    /\ result = None
    /\ calls = 0
    /\ firstX = None
    /\ firstOut = None

\* model(X): entry of forward
ForwardCall(x) ==
    /\ pc = "idle"
    /\ calls < MaxCalls
    /\ X' = x
    /\ long_memory' = forward_entry(long_memory, short_memory)[1]
    /\ short_memory' = forward_entry(long_memory, short_memory)[2]
    /\ steps' = << >>
    /\ calls' = calls + 1
    /\ pc' = "day1"
    /\ UNCHANGED << model, result, firstX, firstOut >>
    /\ UNCHANGED << decoderVars, trainVars, fitVars, evalVars >>

NextPc(p) ==
    CASE p = "day1" -> "day2"
      [] p = "day2" -> "day3"
      [] p = "day3" -> "day4"
      [] p = "day4" -> "return"

DayIndex(p) ==
    CASE p = "day1" -> 1
      [] p = "day2" -> 2
      [] p = "day3" -> 3
      [] p = "day4" -> 4

\* long_memory, short_memory = self.lstm_unit(dayN, long_memory, short_memory)
ForwardStep ==
    /\ pc \in {"day1", "day2", "day3", "day4"}
    /\ LET d == day(X, DayIndex(pc))
           r == lstm_unit(model, d, long_memory, short_memory)
       IN  /\ long_memory' = r[1]
           /\ short_memory' = r[2]
           /\ steps' = Append(steps, d)
    /\ pc' = NextPc(pc)
    /\ UNCHANGED << model, X, result, calls, firstX, firstOut >>
    /\ UNCHANGED << decoderVars, trainVars, fitVars, evalVars >>

\* return short_memory
ForwardReturn ==
    /\ pc = "return"
    /\ result' = forward_return(long_memory, short_memory)
    /\ firstX' = IF firstX = None THEN X ELSE firstX
    /\ firstOut' = IF firstX = None
                   THEN forward_return(long_memory, short_memory)
                   ELSE firstOut
    /\ pc' = "idle"
    /\ UNCHANGED << model, X, long_memory, short_memory, steps, calls >>
    /\ UNCHANGED << decoderVars, trainVars, fitVars, evalVars >>

\* Parameter values far from those the constructor draws: weights and
\* biases of -10, 0 and 10, which drive the gates to their limits.
Saturating == { -10 * Scale, 0, 10 * Scale }

\* An instance whose gate weights are g, candidate weights c, biases b.
LstmWith(g, c, b) ==
    [wlr1 |-> g, wlr2 |-> g, blr1 |-> b,
     wpr1 |-> g, wpr2 |-> g, bpr1 |-> b,
     wp1  |-> c, wp2  |-> c, bp1  |-> b,
     wo1  |-> g, wo2  |-> g, bo1  |-> b]

\* Input values of a step.
InputValues == { - Scale, 0, Scale }

\* An instance with any of these parameters, before any call.
LstmGiven ==
    /\ model \in { LSTM(lstm_seed) }
                  \cup { LstmWith(g, c, b) : g \in Saturating, c \in Saturating,
                                            b \in Saturating }
    /\ pc = "idle"
    /\ X = None
    /\ long_memory = 0
    /\ short_memory = 0
    /\ steps = << >>
    /\ result = None
    /\ calls = 0
    /\ firstX = None
    /\ firstOut = None

\* long_memory, short_memory = self.lstm_unit(v, long_memory, short_memory),
\* on the memories the application before it returned
UnitApply(v) ==
    /\ pc = "idle"
    /\ Len(steps) < MaxApplications
    /\ LET r == lstm_unit(model, v, long_memory, short_memory)
       IN  /\ long_memory' = r[1]
           /\ short_memory' = r[2]
    /\ steps' = Append(steps, v)
    /\ UNCHANGED << model, pc, X, result, calls, firstX, firstOut >>
    /\ UNCHANGED << decoderVars, trainVars, fitVars, evalVars >>

\* ---------------------------------------------------- decoder: operations
\* model_input of the notebook (what is kael <EOS>, kael is what <EOS>) and
\* every sequence of 1 .. max_length tokens with ids 0 .. MaxSeedToken.
notebook_inputs ==
    { << token_to_id["what"], token_to_id["is"], token_to_id["kael"],
         token_to_id["<EOS>"] >>,
      << token_to_id["kael"], token_to_id["is"], token_to_id["what"],
         token_to_id["<EOS>"] >> }

ModelInputs ==
    notebook_inputs
    \cup UNION { [1 .. n -> 0 .. MaxSeedToken] : n \in 1 .. max_length }

\* The decoder notebook after model = DecoderTransformer(...), for the seed s.
DecoderConstructed(s) ==
    /\ decoder = DecoderTransformer(s)
    /\ dpc = "idle"
    /\ caller_input = None
    /\ model_input = None
    /\ input_length = 0
    /\ predictions = None
    /\ mask = None
    /\ attention_percents = None
    /\ predicted_id = None
    /\ predicted_ids = << >>
    /\ i = 0
    /\ passes = 0
    /\ iterations = 0
    /\ printed = << >>

\* model(token_ids): one forward pass, leaving its mask, its attention
\* weights and its logits
ForwardPass(token_ids) ==
    LET position_encoded == position_encoded_of(decoder, token_ids)
        m == causal_mask(Len(token_ids))
        percents == attention_percents_of(decoder, position_encoded,
                                          position_encoded, m)
    IN  /\ mask' = m
        /\ attention_percents' = percents
        /\ predictions' =
              fc_layer(decoder,
                  residual_connection(position_encoded,
                      attention_scores(decoder, percents, position_encoded)))
        /\ passes' = passes + 1

\* predictions[-1, :]
last_position(p) == p[Len(p)]

\* A slip: the arguments of torch.cat exchanged.
cat_exchanged(a, b) == b \o a

\* torch.cat((model_input, predicted_id))
cat(a, b) == a \o b

\* A slip: the loop left on another token than <EOS>.
is_eos_other(id) == id = token_to_id["awesome"]

\* predicted_id == torch.tensor([token_to_id['<EOS>']])
is_eos(id) == id = token_to_id["<EOS>"]

\* A slip: range(max_length).
range_start_zero(n) == 0

\* range(input_length, max_length): its first value
range_start(n) == n

\* A slip: range(input_length, max_length - 1).
in_range_short(n) == n < max_length - 1

\* range(input_length, max_length) has the value n
in_range(n) == n < max_length

\* predict(model_input) up to the loop
PredictCall(x) ==
    /\ dpc = "idle"
    /\ caller_input' = x
    /\ model_input' = x
    /\ input_length' = Len(x)
    /\ ForwardPass(x)
    /\ predicted_id' = argmax(last_position(predictions'))
    /\ predicted_ids' = << predicted_id' >>
    /\ i' = range_start(input_length')
    /\ iterations' = 0
    /\ dpc' = "loop"
    /\ UNCHANGED << decoder, printed >>
    /\ UNCHANGED << lstmVars, trainVars, fitVars, evalVars >>

\* if(predicted_id == <EOS>): break
PredictBreak ==
    /\ dpc = "loop"
    /\ in_range(i)
    /\ is_eos(predicted_id)
    /\ dpc' = "print"
    /\ UNCHANGED << decoder, caller_input, model_input, input_length,
                    predictions, mask, attention_percents, predicted_id,
                    predicted_ids, i, passes, iterations, printed >>
    /\ UNCHANGED << lstmVars, trainVars, fitVars, evalVars >>

\* A slip: the caller's sequence extended in place.
caller_sequence_extended(caller, extended) == extended

\* model_input = torch.cat(...) binds the name of predict to a new tensor;
\* the caller's tensor is as it was
caller_sequence(caller, extended) == caller

\* one iteration of the loop that does not break
PredictStep ==
    /\ dpc = "loop"
    /\ in_range(i)
    /\ ~ is_eos(predicted_id)
    /\ model_input' = cat(model_input, << predicted_id >>)
    /\ caller_input' = caller_sequence(caller_input, model_input')
    /\ ForwardPass(model_input')
    /\ predicted_id' = argmax(last_position(predictions'))
    /\ predicted_ids' = cat(predicted_ids, << predicted_id' >>)
    /\ i' = i + 1
    /\ iterations' = iterations + 1
    /\ UNCHANGED << decoder, dpc, input_length, printed >>
    /\ UNCHANGED << lstmVars, trainVars, fitVars, evalVars >>

\* range(input_length, max_length) is exhausted
PredictLoopEnd ==
    /\ dpc = "loop"
    /\ ~ in_range(i)
    /\ dpc' = "print"
    /\ UNCHANGED << decoder, caller_input, model_input, input_length,
                    predictions, mask, attention_percents, predicted_id,
                    predicted_ids, i, passes, iterations, printed >>
    /\ UNCHANGED << lstmVars, trainVars, fitVars, evalVars >>

\* for id in predicted_ids: print(id_to_token[id.item()])
PredictPrint ==
    /\ dpc = "print"
    /\ printed' = [k \in 1 .. Len(predicted_ids) |-> id_to_token[predicted_ids[k]]]
    /\ dpc' = "done"
    /\ UNCHANGED << decoder, caller_input, model_input, input_length,
                    predictions, mask, attention_percents, predicted_id,
                    predicted_ids, i, passes, iterations >>
    /\ UNCHANGED << lstmVars, trainVars, fitVars, evalVars >>

\* predict(model_input) once more, on the caller's sequence of the call
\* that has ended, up to the loop
PredictAgain ==
    /\ dpc = "done"
    /\ model_input' = caller_input
    /\ input_length' = Len(caller_input)
    /\ LET position_encoded == position_encoded_of(decoder, caller_input)
           m == causal_mask(Len(caller_input))
           percents == attention_percents_of(decoder, position_encoded,
                                             position_encoded, m)
       IN  /\ mask' = m
           /\ attention_percents' = percents
           /\ predictions' =
                 fc_layer(decoder,
                     residual_connection(position_encoded,
                         attention_scores(decoder, percents, position_encoded)))
    /\ passes' = 1
    /\ predicted_id' = argmax(last_position(predictions'))
    /\ predicted_ids' = << predicted_id' >>
    /\ i' = range_start(input_length')
    /\ iterations' = 0
    /\ dpc' = "loop"
    /\ UNCHANGED << decoder, caller_input, printed >>
    /\ UNCHANGED << lstmVars, trainVars, fitVars, evalVars >>

\* ---------------------------------------------------- training: operations
\* The notebook before its training cell has run: no optimizer, no file.
NothingTrained ==
    /\ tpc = "idle"
    /\ cell = "none"
    /\ resumes = 0
    /\ epochs = None
    /\ epoch = None
    /\ next_epoch = 0
    /\ batch = 0
    /\ total_loss = None
    /\ outputs = None
    /\ output = None
    /\ loss = None
    /\ grads = zero_grad
    /\ optimizer = None
    /\ checkpoint = None
    /\ writer = None
    /\ stdout = << >>

\* A slip: range(epochs) in the resume cell.
range_first_restart(first) == 0

\* range(first, epochs): the first value
range_first(first) == first

\* A checkpoint that records the loop variable itself
saved_epoch_loop_variable(e) == e

\* 'epoch': epoch + 1
saved_epoch(e) == e + 1

\* The training cell up to its loop: writer = SummaryWriter(); epochs = n;
\* optimizer = Adam(model.parameters(), lr=0.1); for epoch in range(epochs)
TrainCell(n) ==
    /\ tpc = "idle"
    /\ cell = "none"
    /\ cell' = "train"
    /\ writer' = << >>
    /\ epochs' = n
    /\ optimizer' = Adam
    /\ next_epoch' = range_first(0)
    /\ tpc' = "for_epoch"
    /\ UNCHANGED << model, resumes, epoch, batch, total_loss, outputs, output,
                    loss, grads, checkpoint, stdout >>
    /\ UNCHANGED << callVars, decoderVars, fitVars, evalVars >>

\* A load that leaves the new instance as it was constructed
load_state_dict_skipped(self, state_dict) == self

\* model.load_state_dict(state_dict): every parameter of the instance takes
\* the value the state_dict holds under its name
load_state_dict(self, state_dict) ==
    [name \in DOMAIN self |-> state_dict[name]]

\* optimizer.load_state_dict(state_dict): the step count and the moments
optimizer_load_state_dict(opt, state_dict) ==
    [step |-> state_dict.step, exp_avg |-> state_dict.exp_avg]

\* The resume cell up to its loop: a new writer, a new model and optimizer,
\* both loaded from the checkpoint, the checkpoint's loss and outputs
\* written at its epoch; for epoch in range(epoch, epochs)
ResumeCell(n) ==
    /\ tpc = "idle"
    /\ cell # "none"
    /\ DOMAIN checkpoint # {}
    /\ resumes < MaxResumes
    /\ resumes' = resumes + 1
    /\ cell' = "resume"
    /\ epochs' = n
    /\ model' = load_state_dict(LSTM(lstm_seed), checkpoint.model_state_dict)
    /\ optimizer' = optimizer_load_state_dict(Adam,
                                              checkpoint.optimizer_state_dict)
    /\ epoch' = checkpoint.epoch
    /\ loss' = checkpoint.loss
    /\ outputs' = checkpoint.outputs
    /\ writer' = << << "Loss/Train", checkpoint.loss, checkpoint.epoch >>,
                    << "Out0/Train", checkpoint.outputs[1], checkpoint.epoch >>,
                    << "Out1/Train", checkpoint.outputs[2], checkpoint.epoch >> >>
    /\ next_epoch' = range_first(checkpoint.epoch)
    /\ tpc' = "for_epoch"
    /\ grads' = zero_grad
    /\ UNCHANGED << batch, total_loss, output, checkpoint, stdout >>
    /\ UNCHANGED << callVars, decoderVars, fitVars, evalVars >>

\* A slip: the accumulator set to 0 before the loop, not in it.
total_loss_reset_once(previous, e) == IF e = 0 THEN 0 ELSE previous

\* total_loss = 0, in epoch e, whatever the accumulator held
total_loss_reset(previous, e) == 0

\* for epoch in range(...): the next epoch begins; total_loss = 0;
\* outputs = [0, 0]; the first example is taken
EpochBegin ==
    /\ tpc = "for_epoch"
    /\ next_epoch < epochs
    /\ epoch' = next_epoch
    /\ next_epoch' = next_epoch + 1
    /\ total_loss' = total_loss_reset(total_loss, next_epoch)
    /\ outputs' = << 0, 0 >>
    /\ batch' = 0
    /\ tpc' = "forward"
    /\ UNCHANGED << model, cell, resumes, epochs, output, loss, grads,
                    optimizer, checkpoint, writer, stdout >>
    /\ UNCHANGED << callVars, decoderVars, fitVars, evalVars >>

\* A loader that yields the examples last to first
batch_example_reversed(b) == Len(inputs) - b

\* enumerate(DataLoader(dataset)): the example that comes with index b, the
\* examples in the order of the dataset, one to a batch
batch_example(b) == b + 1

\* output = model(X[0]); loss = (y - output) ** 2;
\* total_loss += loss.item(); outputs[batch] = output
BatchForward ==
    /\ tpc = "forward"
    /\ LET out == forward(model, inputs[batch_example(batch)])
           l == squared_error(labels[batch_example(batch)], out)
       IN  /\ output' = out
           /\ loss' = l
           /\ total_loss' = total_loss + l
           /\ outputs' = [outputs EXCEPT ![batch + 1] = out]
    /\ tpc' = "backward"
    /\ UNCHANGED << model, cell, resumes, epochs, epoch, next_epoch, batch,
                    grads, optimizer, checkpoint, writer, stdout >>
    /\ UNCHANGED << callVars, decoderVars, fitVars, evalVars >>

\* optimizer.zero_grad(); loss.backward()
BatchBackward ==
    /\ tpc = "backward"
    /\ LET g == backward(model, inputs[batch_example(batch)],
                          labels[batch_example(batch)])
       IN  grads' = [name \in ParamNames |->
                        IF name \in graph_parameters THEN << g[name] >>
                        ELSE zero_grad[name]]
    /\ tpc' = "step"
    /\ UNCHANGED << model, cell, resumes, epochs, epoch, next_epoch, batch,
                    total_loss, outputs, output, loss, optimizer, checkpoint,
                    writer, stdout >>
    /\ UNCHANGED << callVars, decoderVars, fitVars, evalVars >>

\* A loop over the examples that ends after the first one
more_batches_first_only(b) == b < 1

\* for batch, (X, y) in enumerate(dataloader): whether an example is left
\* once b examples are done
more_batches(b) == b < Len(inputs)

\* optimizer.step(); then the next example, or the end of the epoch
BatchStep ==
    /\ tpc = "step"
    /\ model' = adam_step(model, grads)
    /\ optimizer' = adam_state(optimizer, grads)
    /\ batch' = batch + 1
    /\ tpc' = IF more_batches(batch + 1) THEN "forward" ELSE "epoch_end"
    /\ UNCHANGED << cell, resumes, epochs, epoch, next_epoch, total_loss,
                    outputs, output, loss, grads, checkpoint, writer, stdout >>
    /\ UNCHANGED << callVars, decoderVars, fitVars, evalVars >>

\* A slip: the scalars written at the loop variable itself.
global_step_loop_variable(e) == e

\* writer.add_scalar(tag, value, epoch + 1): the step number
global_step(e) == e + 1

\* The end of an epoch: three writer.add_scalar, the print, torch.save
EpochEnd ==
    /\ tpc = "epoch_end"
    /\ writer' = writer \o
          << << "Loss/Train", total_loss, global_step(epoch) >>,
             << "Out0/Train", outputs[1], global_step(epoch) >>,
             << "Out1/Train", outputs[2], global_step(epoch) >> >>
    /\ stdout' = Append(stdout, << epoch + 1, epochs >>)
    /\ checkpoint' = [epoch |-> saved_epoch(epoch),
                      model_state_dict |-> model,
                      optimizer_state_dict |-> optimizer,
                      loss |-> total_loss,
                      outputs |-> outputs]
    /\ tpc' = "for_epoch"
    /\ UNCHANGED << model, cell, resumes, epochs, epoch, next_epoch, batch,
                    total_loss, outputs, output, loss, grads, optimizer >>
    /\ UNCHANGED << callVars, decoderVars, fitVars, evalVars >>

\* The range of the epoch loop is exhausted: writer.flush(); model.eval()
CellEnd ==
    /\ tpc = "for_epoch"
    /\ ~ (next_epoch < epochs)
    /\ tpc' = "idle"
    /\ UNCHANGED << model, cell, resumes, epochs, epoch, next_epoch, batch,
                    total_loss, outputs, output, loss, grads, optimizer,
                    checkpoint, writer, stdout >>
    /\ UNCHANGED << callVars, decoderVars, fitVars, evalVars >>

\* -------------------------------------------- decoder training: operations
\* The decoder notebook before its training cell has run.
DecoderUntrained ==
    /\ decoder_tpc = "idle"
    /\ decoder_epochs = None
    /\ decoder_epoch = None
    /\ decoder_next_epoch = 0
    /\ batch_idx = 0
    /\ decoder_loss = None
    /\ decoder_total_loss = None
    /\ decoder_optimizer = None
    /\ decoder_stdout = << >>

\* The training cell up to its loop: epochs = n;
\* optimizer = Adam(model.parameters(), lr=0.1); for epoch in range(epochs)
DecoderTrainCell(n) ==
    /\ decoder_tpc = "idle"
    /\ decoder_epochs' = n
    /\ decoder_optimizer' = [step |-> 0]
    /\ decoder_next_epoch' = 0
    /\ decoder_tpc' = "for_epoch"
    /\ UNCHANGED << decoder_epoch, batch_idx, decoder_loss, decoder_total_loss,
                    decoder_stdout >>
    /\ UNCHANGED << lstmVars, decoderVars, trainVars, evalVars >>

\* for epoch in range(epochs): total_loss = 0; the first batch is taken
DecoderEpochBegin ==
    /\ decoder_tpc = "for_epoch"
    /\ decoder_next_epoch < decoder_epochs
    /\ decoder_epoch' = decoder_next_epoch
    /\ decoder_next_epoch' = decoder_next_epoch + 1
    /\ decoder_total_loss' = 0
    /\ batch_idx' = 0
    /\ decoder_tpc' = "batch"
    /\ UNCHANGED << decoder_epochs, decoder_loss, decoder_optimizer,
                    decoder_stdout >>
    /\ UNCHANGED << lstmVars, decoderVars, trainVars, evalVars >>

\* loss = model.training_step(batch, batch_idx, optimizer): the forward
\* pass, the loss, optimizer.zero_grad(), loss.backward(), optimizer.step();
\* total_loss += loss; then the next batch, or the end of the epoch
TrainingStep ==
    /\ decoder_tpc = "batch"
    /\ decoder_loss' = training_loss(decoder, batch_idx + 1)
    /\ decoder' = decoder_adam_step(decoder,
                                    decoder_backward(decoder, batch_idx + 1))
    /\ decoder_optimizer' = [step |-> decoder_optimizer.step + 1]
    /\ decoder_total_loss' = decoder_total_loss + decoder_loss'
    /\ batch_idx' = batch_idx + 1
    /\ decoder_tpc' = IF batch_idx + 1 < Len(decoder_inputs) THEN "batch"
                      ELSE "print"
    /\ UNCHANGED << decoder_epochs, decoder_epoch, decoder_next_epoch,
                    decoder_stdout >>
    /\ UNCHANGED << lstmVars, predictVars, trainVars, evalVars >>

\* print(f'Epoch: {epoch + 1} / {epochs} | Loss: {total_loss}')
DecoderEpochEnd ==
    /\ decoder_tpc = "print"
    /\ decoder_stdout' = Append(decoder_stdout,
                                << decoder_epoch + 1, decoder_epochs >>)
    /\ decoder_tpc' = "for_epoch"
    /\ UNCHANGED << decoder_epochs, decoder_epoch, decoder_next_epoch,
                    batch_idx, decoder_loss, decoder_total_loss,
                    decoder_optimizer >>
    /\ UNCHANGED << lstmVars, decoderVars, trainVars, evalVars >>

\* The range of the epoch loop is exhausted.
DecoderCellEnd ==
    /\ decoder_tpc = "for_epoch"
    /\ ~ (decoder_next_epoch < decoder_epochs)
    /\ decoder_tpc' = "trained"
    /\ UNCHANGED << decoder_epochs, decoder_epoch, decoder_next_epoch,
                    batch_idx, decoder_loss, decoder_total_loss,
                    decoder_optimizer, decoder_stdout >>
    /\ UNCHANGED << lstmVars, decoderVars, trainVars, evalVars >>

\* ------------------------------------------ the notebook's recorded run
\* What the LSTM notebook printed when it was run, as its cells' outputs
\* record it, in units of 1 / 1000 (the grid at Scale = 1000), rounded.
\* The "Epoch: k / n | Loss: l" lines of the training cell (epochs = 20):
stdout_20_epochs ==
    << << 1, 20, 790 >>, << 2, 20, 648 >>, << 3, 20, 550 >>, << 4, 20, 483 >>,
       << 5, 20, 453 >>, << 6, 20, 450 >>, << 7, 20, 461 >>, << 8, 20, 475 >>,
       << 9, 20, 484 >>, << 10, 20, 488 >>, << 11, 20, 487 >>, << 12, 20, 483 >>,
       << 13, 20, 477 >>, << 14, 20, 471 >>, << 15, 20, 464 >>, << 16, 20, 458 >>,
       << 17, 20, 452 >>, << 18, 20, 445 >>, << 19, 20, 438 >>, << 20, 20, 428 >> >>

\* of the first resume cell (epochs = 40):
stdout_40_epochs ==
    << << 21, 40, 417 >>, << 22, 40, 404 >>, << 23, 40, 390 >>, << 24, 40, 375 >>,
       << 25, 40, 357 >>, << 26, 40, 336 >>, << 27, 40, 310 >>, << 28, 40, 278 >>,
       << 29, 40, 238 >>, << 30, 40, 190 >>, << 31, 40, 137 >>, << 32, 40, 87 >>,
       << 33, 40, 49 >>, << 34, 40, 28 >>, << 35, 40, 18 >>, << 36, 40, 11 >>,
       << 37, 40, 8 >>, << 38, 40, 7 >>, << 39, 40, 5 >>, << 40, 40, 4 >> >>

\* and of the second resume cell (epochs = 100):
stdout_100_epochs ==
    << << 41, 100, 4 >>, << 42, 100, 3 >>, << 43, 100, 3 >>, << 44, 100, 2 >>,
       << 45, 100, 2 >>, << 46, 100, 2 >>, << 47, 100, 2 >>, << 48, 100, 2 >>,
       << 49, 100, 2 >>, << 50, 100, 1 >>, << 51, 100, 2 >>, << 52, 100, 1 >>,
       << 53, 100, 1 >>, << 54, 100, 1 >>, << 55, 100, 1 >>, << 56, 100, 1 >>,
       << 57, 100, 1 >>, << 58, 100, 1 >>, << 59, 100, 1 >>, << 60, 100, 1 >>,
       << 61, 100, 1 >>, << 62, 100, 1 >>, << 63, 100, 1 >>, << 64, 100, 1 >>,
       << 65, 100, 1 >>, << 66, 100, 1 >>, << 67, 100, 1 >>, << 68, 100, 1 >>,
       << 69, 100, 1 >>, << 70, 100, 1 >>, << 71, 100, 1 >>, << 72, 100, 1 >>,
       << 73, 100, 1 >>, << 74, 100, 1 >>, << 75, 100, 1 >>, << 76, 100, 1 >>,
       << 77, 100, 1 >>, << 78, 100, 1 >>, << 79, 100, 1 >>, << 80, 100, 1 >>,
       << 81, 100, 1 >>, << 82, 100, 1 >>, << 83, 100, 1 >>, << 84, 100, 1 >>,
       << 85, 100, 1 >>, << 86, 100, 1 >>, << 87, 100, 1 >>, << 88, 100, 1 >>,
       << 89, 100, 1 >>, << 90, 100, 1 >>, << 91, 100, 1 >>, << 92, 100, 1 >>,
       << 93, 100, 1 >>, << 94, 100, 1 >>, << 95, 100, 1 >>, << 96, 100, 1 >>,
       << 97, 100, 1 >>, << 98, 100, 1 >>, << 99, 100, 1 >>, << 100, 100, 1 >> >>

recorded_stdout == stdout_20_epochs \o stdout_40_epochs \o stdout_100_epochs

\* A last resume cell whose target is the 40 epochs already run
recorded_epochs_no_more == << 20, 40, 40 >>

\* epochs = 20, epochs = 40, epochs = 100
recorded_epochs == << 20, 40, 100 >>

\* "Company A: Observed = 0, Predicted = ..." and "Company B: Observed = 1,
\* Predicted = ..." before training: 0.2416, 0.2482
predicted_before_training == << 242, 248 >>

\* after the cells of 20, 40 and 100 epochs: 0.4432, 0.5343; -0.0188,
\* 0.9403; 2.4159e-05, 0.9752
predicted_after_training == << << 443, 534 >>, << -19, 940 >>, << 0, 975 >> >>

\* Observed = 0, Observed = 1
observed == << 0, 1000 >>

\* The notebook before its training cell, its first evaluation printed.
RecordedInit ==
    /\ evaluated = predicted_before_training

\* A training or resume cell begins: epochs = 20, 40 or 100
RecordedCellBegin ==
    /\ tpc = "idle"
    /\ (IF cell = "none" THEN 0 ELSE resumes + 1) < Len(recorded_epochs)
    /\ cell' = IF cell = "none" THEN "train" ELSE "resume"
    /\ resumes' = IF cell = "none" THEN 0 ELSE resumes + 1
    /\ epochs' = recorded_epochs[IF cell = "none" THEN 1 ELSE resumes + 2]
    /\ tpc' = "for_epoch"
    /\ UNCHANGED << model, epoch, next_epoch, batch, total_loss, outputs,
                    output, loss, grads, optimizer, checkpoint, writer, stdout,
                    evaluated >>
    /\ UNCHANGED << callVars, decoderVars, fitVars >>

\* An epoch of the cell ends: its line is printed
RecordedEpoch ==
    /\ tpc = "for_epoch"
    /\ Len(stdout) < Len(recorded_stdout)
    /\ recorded_stdout[Len(stdout) + 1][2] = epochs
    /\ stdout' = Append(stdout, << recorded_stdout[Len(stdout) + 1][1],
                                   recorded_stdout[Len(stdout) + 1][2] >>)
    /\ total_loss' = recorded_stdout[Len(stdout) + 1][3]
    /\ UNCHANGED << model, tpc, cell, resumes, epochs, epoch, next_epoch, batch,
                    outputs, output, loss, grads, optimizer, checkpoint, writer,
                    evaluated >>
    /\ UNCHANGED << callVars, decoderVars, fitVars >>

\* The cell's loop has ended: model.eval() and the two predictions printed
RecordedEvaluation ==
    /\ tpc = "for_epoch"
    /\ IF Len(stdout) = Len(recorded_stdout) THEN TRUE
       ELSE recorded_stdout[Len(stdout) + 1][2] # epochs
    /\ evaluated' = predicted_after_training[resumes + 1]
    /\ tpc' = "idle"
    /\ UNCHANGED << model, cell, resumes, epochs, epoch, next_epoch, batch,
                    total_loss, outputs, output, loss, grads, optimizer,
                    checkpoint, writer, stdout >>
    /\ UNCHANGED << callVars, decoderVars, fitVars >>

\* What the decoder notebook printed when it was run, as its cells' outputs
\* record it.  The "Epoch: k / 10 | Loss: l" lines of its training cell, the
\* loss in units of 1 / 1000, rounded:
decoder_recorded_stdout ==
    << << 1, 10, 3432 >>, << 2, 10, 2627 >>, << 3, 10, 2157 >>,
       << 4, 10, 1809 >>, << 5, 10, 1491 >>, << 6, 10, 1175 >>,
       << 7, 10, 910 >>, << 8, 10, 723 >>, << 9, 10, 569 >>,
       << 10, 10, 446 >> >>

\* epochs = 10
decoder_recorded_epochs == 10

\* model_input of the first cells: what is kael <EOS>
what_is_kael ==
    << token_to_id["what"], token_to_id["is"], token_to_id["kael"],
       token_to_id["<EOS>"] >>

\* model_input of the last cell: kael is what <EOS>
kael_is_what ==
    << token_to_id["kael"], token_to_id["is"], token_to_id["what"],
       token_to_id["<EOS>"] >>

\* "Predicted tokens before training:" for what is kael <EOS>
predicted_tokens_before_training == << "awesome", "awesome", "what" >>

\* A slip: the tokens printed after training are those printed before it.
predicted_tokens_untrained(x) == predicted_tokens_before_training

\* "Predicted tokens after training:" for the model_input x, in both cells
predicted_tokens_after_training(x) ==
    CASE x = what_is_kael -> << "awesome", "<EOS>" >>
      [] x = kael_is_what -> << "awesome", "<EOS>" >>

\* The cell that prints the prediction before training
RecordedPredictBefore ==
    /\ decoder_tpc = "idle"
    /\ dpc = "idle"
    /\ caller_input' = what_is_kael
    /\ printed' = predicted_tokens_before_training
    /\ dpc' = "done"
    /\ UNCHANGED << decoder, model_input, input_length, predictions, mask,
                    attention_percents, predicted_id, predicted_ids, i, passes,
                    iterations >>
    /\ UNCHANGED << lstmVars, trainVars, fitVars, evalVars >>

\* The training cell begins: epochs = 10
RecordedDecoderCellBegin ==
    /\ decoder_tpc = "idle"
    /\ dpc = "done"
    /\ decoder_epochs' = decoder_recorded_epochs
    /\ decoder_tpc' = "for_epoch"
    /\ UNCHANGED << decoder_epoch, decoder_next_epoch, batch_idx, decoder_loss,
                    decoder_total_loss, decoder_optimizer, decoder_stdout >>
    /\ UNCHANGED << lstmVars, decoderVars, trainVars, evalVars >>

\* An epoch of the training cell ends: its line is printed
RecordedDecoderEpoch ==
    /\ decoder_tpc = "for_epoch"
    /\ decoder_next_epoch < decoder_epochs
    /\ decoder_next_epoch < Len(decoder_recorded_stdout)
    /\ decoder_epoch' = decoder_next_epoch
    /\ decoder_next_epoch' = decoder_next_epoch + 1
    /\ decoder_stdout' =
           Append(decoder_stdout,
                  << decoder_recorded_stdout[decoder_next_epoch + 1][1],
                     decoder_recorded_stdout[decoder_next_epoch + 1][2] >>)
    /\ decoder_total_loss' = decoder_recorded_stdout[decoder_next_epoch + 1][3]
    /\ UNCHANGED << decoder_tpc, decoder_epochs, batch_idx, decoder_loss,
                    decoder_optimizer >>
    /\ UNCHANGED << lstmVars, decoderVars, trainVars, evalVars >>

\* The loop of the training cell has ended
RecordedDecoderCellEnd ==
    /\ decoder_tpc = "for_epoch"
    /\ ~ (decoder_next_epoch < decoder_epochs)
    /\ decoder_tpc' = "trained"
    /\ UNCHANGED << decoder_epochs, decoder_epoch, decoder_next_epoch,
                    batch_idx, decoder_loss, decoder_total_loss,
                    decoder_optimizer, decoder_stdout >>
    /\ UNCHANGED << lstmVars, decoderVars, trainVars, evalVars >>

\* A cell that prints the prediction after training, for the model_input x
RecordedPredictAfter(x) ==
    /\ decoder_tpc = "trained"
    /\ caller_input' = x
    /\ printed' = predicted_tokens_after_training(x)
    /\ dpc' = "done"
    /\ UNCHANGED << decoder, model_input, input_length, predictions, mask,
                    attention_percents, predicted_id, predicted_ids, i, passes,
                    iterations >>
    /\ UNCHANGED << lstmVars, trainVars, fitVars, evalVars >>

\* --------------------------------------------------------- specifications
\* The LSTM notebook: forward calls on one model.
LstmInit ==
    /\ \E s \in lstm_seed .. lstm_seed + ExtraSeeds : LstmConstructed(s)
    /\ DecoderConstructed(seed)
    /\ NothingTrained
    /\ DecoderUntrained
    /\ RecordedInit

LstmNext ==
    \/ \E x \in Inputs : ForwardCall(x)
    \/ ForwardStep
    \/ ForwardReturn

LstmSpec == LstmInit /\ [][LstmNext]_vars

\* lstm_unit applied again and again from the memories (0, 0), for
\* parameters and inputs at and beyond those of the notebook.
UnitInit ==
    /\ LstmGiven
    /\ DecoderConstructed(seed)
    /\ NothingTrained
    /\ DecoderUntrained
    /\ RecordedInit

UnitNext == \E v \in InputValues : UnitApply(v)

UnitSpec == UnitInit /\ [][UnitNext]_vars

\* The decoder notebook: one call of predict on one model.
DecoderInit ==
    /\ \E s \in seed .. seed + ExtraSeeds : DecoderConstructed(s)
    /\ LstmConstructed(lstm_seed)
    /\ NothingTrained
    /\ DecoderUntrained
    /\ RecordedInit

DecoderNext ==
    \/ \E x \in ModelInputs : PredictCall(x)
    \/ PredictBreak
    \/ PredictStep
    \/ PredictLoopEnd
    \/ PredictPrint

DecoderSpec == DecoderInit /\ [][DecoderNext]_vars

\* The decoder notebook: predict called, and called again on the same
\* sequence of the caller.
RepeatNext ==
    \/ \E x \in ModelInputs : PredictCall(x)
    \/ PredictBreak
    \/ PredictStep
    \/ PredictLoopEnd
    \/ PredictPrint
    \/ PredictAgain

RepeatSpec == DecoderInit /\ [][RepeatNext]_vars

\* The LSTM notebook: the training cell, then resume cells, each with a
\* number of epochs 0 .. MaxEpochs (the notebook's are 20, 40 and 100).
TrainInit ==
    /\ LstmConstructed(lstm_seed)
    /\ DecoderConstructed(seed)
    /\ NothingTrained
    /\ DecoderUntrained
    /\ RecordedInit

TrainNext ==
    \/ \E n \in 0 .. MaxEpochs : TrainCell(n)
    \/ \E n \in 0 .. MaxEpochs : ResumeCell(n)
    \/ EpochBegin
    \/ BatchForward
    \/ BatchBackward
    \/ BatchStep
    \/ EpochEnd
    \/ CellEnd

TrainSpec == TrainInit /\ [][TrainNext]_vars

\* The runs of the two notebooks that their outputs record.  The LSTM
\* notebook: the training cell and the two resume cells, one line an epoch,
\* and the evaluations.  The decoder notebook: the prediction before
\* training, the training cell, and the predictions after it.
RecordedRunInit ==
    /\ LstmConstructed(lstm_seed)
    /\ DecoderConstructed(seed)
    /\ NothingTrained
    /\ DecoderUntrained
    /\ RecordedInit

RecordedRunNext ==
    \/ RecordedCellBegin
    \/ RecordedEpoch
    \/ RecordedEvaluation
    \/ RecordedPredictBefore
    \/ RecordedDecoderCellBegin
    \/ RecordedDecoderEpoch
    \/ RecordedDecoderCellEnd
    \/ \E x \in { what_is_kael, kael_is_what } : RecordedPredictAfter(x)

RecordedRunSpec == RecordedRunInit /\ [][RecordedRunNext]_vars

\* The two notebooks, each on its own state: the LSTM notebook (forward
\* calls, or its training and resume cells), or the decoder notebook
\* (predict, or its training cell and then predict on the notebook's
\* inputs).  The notebooks share nothing, so a behaviour follows one of them.
NotebooksInit ==
    /\ \E s \in seed .. seed + ExtraSeeds : DecoderConstructed(s)
    /\ LstmConstructed(lstm_seed)
    /\ NothingTrained
    /\ DecoderUntrained
    /\ RecordedInit

\* Which notebook a behaviour is in, and where.
InLstmCalls == dpc = "idle" /\ decoder_tpc = "idle" /\ cell = "none"
InLstmTraining == dpc = "idle" /\ decoder_tpc = "idle" /\ calls = 0
InPredict == calls = 0 /\ cell = "none" /\ decoder_tpc = "idle"
InFit == calls = 0 /\ cell = "none" /\ dpc = "idle"
InTrainedPredict == decoder_tpc = "trained"

NotebooksNext ==
    \/ InLstmCalls /\ \E x \in Inputs : ForwardCall(x)
    \/ InLstmCalls /\ ForwardStep
    \/ InLstmCalls /\ ForwardReturn
    \/ InLstmTraining /\ \E n \in 0 .. MaxEpochs : TrainCell(n)
    \/ InLstmTraining /\ \E n \in 0 .. MaxEpochs : ResumeCell(n)
    \/ InLstmTraining /\ EpochBegin
    \/ InLstmTraining /\ BatchForward
    \/ InLstmTraining /\ BatchBackward
    \/ InLstmTraining /\ BatchStep
    \/ InLstmTraining /\ EpochEnd
    \/ InLstmTraining /\ CellEnd
    \/ InPredict /\ \E x \in ModelInputs : PredictCall(x)
    \/ InPredict /\ PredictBreak
    \/ InPredict /\ PredictStep
    \/ InPredict /\ PredictLoopEnd
    \/ InPredict /\ PredictPrint
    \/ InFit /\ \E n \in 0 .. MaxEpochs : DecoderTrainCell(n)
    \/ InFit /\ DecoderEpochBegin
    \/ InFit /\ TrainingStep
    \/ InFit /\ DecoderEpochEnd
    \/ InFit /\ DecoderCellEnd
    \/ InTrainedPredict /\ \E x \in notebook_inputs : PredictCall(x)
    \/ InTrainedPredict /\ PredictBreak
    \/ InTrainedPredict /\ PredictStep
    \/ InTrainedPredict /\ PredictLoopEnd
    \/ InTrainedPredict /\ PredictPrint

NotebooksSpec == NotebooksInit /\ [][NotebooksNext]_vars

\* --------------------------------------------------------- decoder: claims
\* The attention weights a forward pass must not exceed at a masked place to
\* count as approximately 0: one hundredth.
Epsilon == Scale \div 100

\* C1: the logits of positions 0 .. i of a forward pass are those of every
\* token sequence of the same length that agrees with its input on positions
\* 0 .. i, under the same parameters.
C1_OutputDependsOnlyOnEarlierPositions ==
    predictions # None =>
        \A other \in [1 .. Len(model_input) -> TokenIds] :
            \A p \in 1 .. Len(model_input) :
                (\A k \in 1 .. p : other[k] = model_input[k]) =>
                    \A k \in 1 .. p :
                        decoder_forward(decoder, other)[k] = predictions[k]

\* C2: the mask of a forward pass on n tokens is an n x n matrix of booleans
\* whose entry (a, b) is TRUE (disallowed) exactly when b > a, so that every
\* position may attend to itself and to earlier positions only.
C2_CausalMaskShape ==
    mask # None =>
        /\ Len(mask) = Len(model_input)
        /\ \A a \in 1 .. Len(mask) :
              /\ Len(mask[a]) = Len(model_input)
              /\ mask[a][a] = FALSE
              /\ \A b \in 1 .. Len(mask) :
                    /\ mask[a][b] \in BOOLEAN
                    /\ mask[a][b] <=> b > a

\* A forward pass has run on a sequence of max_length tokens that predict
\* has extended.
C2_Witness ==
    /\ mask # None
    /\ Len(mask) = max_length
    /\ passes > 1

\* C3: after softmax the attention weight from position a to every later
\* position b is approximately 0.
C3_FutureWeightsVanish ==
    attention_percents # None =>
        \A a \in 1 .. Len(attention_percents) :
            \A b \in 1 .. Len(attention_percents) :
                b > a => attention_percents[a][b] <= Epsilon

\* The steps predict has left at most: the values left in the range of its
\* loop, then the printing.
Rank ==
    CASE dpc = "idle"  -> max_length + 3
      [] dpc = "loop"  -> max_length - i + 2
      [] dpc = "print" -> 1
      [] dpc = "done"  -> 0

PredictBounds ==
    dpc # "idle" =>
        /\ input_length \in 1 .. 6
        /\ i \in input_length .. 6
        /\ iterations <= 6 - input_length
        /\ iterations \in { i - input_length, i - input_length + 1 }
        /\ passes <= 6 - input_length + 1
        /\ Len(predicted_ids) = passes
        /\ Len(predicted_ids) <= 6 - input_length + 1
        /\ Rank >= 0

\* C4: predict on a seed of n tokens, 1 <= n <= 6, ends: every step lowers
\* the number of steps left, which is never negative, and it has begun at
\* most 6 - n iterations of its loop, run at most 6 - n + 1 forward passes
\* and emitted at most 6 - n + 1 tokens.
C4_PredictTerminates ==
    /\ [] PredictBounds
    /\ [][Rank' < Rank]_vars

\* predict has ended on a seed of one token after five iterations and six
\* forward passes.
C4_Witness ==
    /\ dpc = "done"
    /\ input_length = 1
    /\ iterations = 5
    /\ passes = 6

\* C5, as claimed: the last token predict prints is <EOS>.
C5_EndsWithEOS ==
    dpc = "done" => printed[Len(printed)] = "<EOS>"

\* C5, amended: the last token predict prints is <EOS> unless the loop ran
\* out of its range, and then exactly max_length - n + 1 tokens are printed.
C5_EndsWithEOSOrAtMaxLength ==
    dpc = "done" =>
        \/ printed[Len(printed)] = "<EOS>"
        \/ Len(printed) = max_length - input_length + 1

\* predict has ended on <EOS> before the range of its loop ran out, after
\* another token.
C5_Witness ==
    /\ dpc = "done"
    /\ printed[Len(printed)] = "<EOS>"
    /\ Len(printed) > 1
    /\ Len(printed) < max_length - input_length + 1

\* C6: the token last emitted is the first index of the largest logit at
\* the last position of a forward pass on the whole current sequence, and
\* that sequence is the seed followed by the tokens emitted before it, in
\* order: each pass runs on the previous sequence extended by one token.
C6_ArgmaxAppended ==
    dpc \in {"loop", "print", "done"} =>
        LET row == decoder_forward(decoder, model_input)[Len(model_input)]
            t == predicted_id + 1
        IN  /\ predicted_ids # << >>
            /\ predicted_id = predicted_ids[Len(predicted_ids)]
            /\ predictions = decoder_forward(decoder, model_input)
            /\ \A u \in 1 .. num_tokens : row[u] <= row[t]
            /\ \A u \in 1 .. t - 1 : row[u] < row[t]
            /\ model_input =
                  caller_input \o SubSeq(predicted_ids, 1, Len(predicted_ids) - 1)
            /\ Len(model_input) = input_length + passes - 1

\* predict has appended two different tokens to the seed.
C6_Witness ==
    /\ dpc = "loop"
    /\ Len(predicted_ids) = 3
    /\ predicted_ids[1] # predicted_ids[2]
    /\ predicted_ids[2] # predicted_ids[3]

\* ------------------------------------------------------------ LSTM: claims
Days == {"day1", "day2", "day3", "day4"}

\* C7: forward re-initialises (long_memory, short_memory) to (0, 0) on entry,
\* and a call on the argument of the first completed call returns what that
\* call returned, whatever calls were made in between.
C7_ForwardIdempotent ==
    /\ (pc = "day1" => long_memory = 0 /\ short_memory = 0)
    /\ (pc = "idle" /\ calls > 0 /\ X = firstX => result = firstOut)

\* A third call has returned, on the first call's argument, with a non-zero
\* prediction.
C7_Witness ==
    /\ pc = "idle" /\ calls = 3 /\ X = firstX
    /\ result # 0 /\ steps # << >>

\* The four nested applications of lstm_unit from (0, 0) on x.
Unrolled(self, x) ==
    LET m1 == lstm_unit(self, x[1], 0, 0)
        m2 == lstm_unit(self, x[2], m1[1], m1[2])
        m3 == lstm_unit(self, x[3], m2[1], m2[2])
    IN  lstm_unit(self, x[4], m3[1], m3[2])

\* C8: forward starts from (0, 0), applies lstm_unit once per element of X
\* in the order X[0], X[1], X[2], X[3], each step on the memory the previous
\* step produced, exactly four times, and returns the short-term memory of
\* the fourth step.
C8_ForwardUnrollsFourSteps ==
    /\ (pc = "day1" => long_memory = 0 /\ short_memory = 0 /\ steps = << >>)
    /\ (pc \in Days => Len(steps) = DayIndex(pc) - 1)
    /\ (pc \in Days \cup {"return"} =>
            \A n \in 1 .. Len(steps) : steps[n] = X[n])
    /\ (pc = "return" =>
            /\ Len(steps) = 4
            /\ << long_memory, short_memory >> = Unrolled(model, X))
    /\ (pc = "idle" /\ calls > 0 =>
            /\ steps = X
            /\ result = Unrolled(model, X)[2])

\* A call has returned a non-zero prediction on an input whose four values
\* are not all equal.
C8_Witness ==
    /\ pc = "idle" /\ calls > 0 /\ result # 0
    /\ X[1] # X[2] /\ X[3] # X[4]

\* What one step of forward does to (long_memory, short_memory).
StepObeysEquations ==
    pc \in Days /\ pc' = NextPc(pc) =>
          LET x == X[DayIndex(pc)]
              L == long_memory
              S == short_memory
              forget_gate ==
                  Sigmoid(Mul(S, model.wlr1) + Mul(x, model.wlr2) + model.blr1)
              candidate_gate ==
                  Sigmoid(Mul(S, model.wpr1) + Mul(x, model.wpr2) + model.bpr1)
              candidate_value ==
                  Tanh(Mul(S, model.wp1) + Mul(x, model.wp2) + model.bp1)
              output_gate ==
                  Sigmoid(Mul(S, model.wo1) + Mul(x, model.wo2))
          IN  /\ long_memory' =
                    Mul(L, forget_gate) + Mul(candidate_gate, candidate_value)
              /\ short_memory' = Mul(Tanh(long_memory'), output_gate)

\* C9: one step of forward replaces (L, S) by (L', S') with
\* L' = L * forget_gate + candidate_gate * candidate_value and
\* S' = tanh(L') * output_gate, the three gates of L' computed from S and x
\* with the weights wlr1/wlr2/blr1, wpr1/wpr2/bpr1 and wp1/wp2/bp1.
C9_LstmUnitEquations == [][StepObeysEquations]_vars

\* A step has acted on non-zero prior memory and changed both memories.
C9_Witness ==
    /\ pc = "day4"
    /\ long_memory # 0 /\ short_memory # 0
    /\ Tanh(long_memory) # long_memory

\* ------------------------------------------------------- training: claims
\* The epoch the running resume cell loaded: the step of the three values it
\* gave its new writer before its loop.
LoadedEpoch == writer[1][3]

\* The "Epoch: k / n" lines number the epochs 1, 2, 3, ... across all cells.
EpochsNumberedInOrder == \A j \in 1 .. Len(stdout) : stdout[j][1] = j

\* C10: resuming from a checkpoint of e completed epochs with a target
\* N >= e runs exactly the epochs e+1 .. N, each once and in increasing
\* order: across the training cell and its resumptions the printed epoch
\* numbers are 1, 2, 3, ... with none repeated or skipped, the checkpoint
\* always records the number of epochs printed, and a finished resume cell
\* has printed the lines e+1 / N .. N / N and nothing else.
C10_ResumeContinuesEpochs ==
    /\ EpochsNumberedInOrder
    /\ DOMAIN checkpoint # {} => checkpoint.epoch = Len(stdout)
    /\ (cell = "train" /\ tpc = "idle") =>
          /\ Len(stdout) = epochs
          /\ \A j \in 1 .. epochs : stdout[j] = << j, epochs >>
    /\ (cell = "resume" /\ tpc = "idle" /\ epochs >= LoadedEpoch) =>
          /\ Len(stdout) = epochs
          /\ \A j \in LoadedEpoch + 1 .. epochs : stdout[j] = << j, epochs >>
          /\ \A j \in 1 .. LoadedEpoch : stdout[j][2] # epochs \/ epochs = LoadedEpoch
          /\ Len(writer) = 3 * (1 + epochs - LoadedEpoch)

\* A second resumption has finished, each cell having run one epoch more.
C10_Witness ==
    /\ cell = "resume" /\ tpc = "idle" /\ resumes = 2
    /\ LoadedEpoch = 2 /\ epochs = 3
    /\ stdout = << << 1, 1 >>, << 2, 2 >>, << 3, 3 >> >>

\* The epoch counter of the file at model_path, 0 when there is no file.
SavedEpochs(file) == IF DOMAIN file = {} THEN 0 ELSE file.epoch

\* What holds of a step that writes the checkpoint.
CheckpointWrite ==
    (DOMAIN checkpoint' # {} /\ SavedEpochs(checkpoint') # SavedEpochs(checkpoint)) =>
        /\ tpc = "epoch_end" /\ tpc' = "for_epoch"
        /\ batch = Len(inputs)
        /\ optimizer.step = Len(inputs) * (SavedEpochs(checkpoint) + 1)
        /\ checkpoint'.optimizer_state_dict = optimizer
        /\ checkpoint'.model_state_dict = model
        /\ checkpoint'.epoch = SavedEpochs(checkpoint) + 1
        /\ checkpoint'.epoch = Len(stdout')

\* While an epoch is under way the checkpoint is left alone.
NoWriteInsideEpoch ==
    tpc \in {"forward", "backward", "step"} => UNCHANGED checkpoint

\* C11: the checkpoint is written only at the end of an epoch, after every
\* example of the epoch has had its optimizer step, never inside an epoch;
\* after a write its epoch counter is the number of epochs completed so far
\* across the training cell and its resumptions, one more than the counter
\* of the write before.
C11_CheckpointBetweenEpochs ==
    [][CheckpointWrite /\ NoWriteInsideEpoch]_vars

\* A resumed loop is inside its epoch after two checkpoint writes, the
\* second of them its own.
C11_Witness ==
    /\ cell = "resume" /\ tpc = "step" /\ batch = 1
    /\ SavedEpochs(checkpoint) = 2
    /\ LoadedEpoch = 1

\* Between epochs the file at model_path holds the state the notebook is in.
SnapshotIsLiveState ==
    (tpc \in {"idle", "for_epoch"} /\ DOMAIN checkpoint # {}) =>
        /\ checkpoint.model_state_dict = model
        /\ checkpoint.optimizer_state_dict = optimizer
        /\ checkpoint.epoch = Len(stdout)
        /\ checkpoint.loss = total_loss
        /\ checkpoint.outputs = outputs

\* What the loading of a resume cell leaves: the snapshot, which is the
\* state the notebook was in before the cell constructed its new instances.
LoadRestores ==
    resumes' = resumes + 1 =>
        /\ model' = checkpoint.model_state_dict /\ model' = model
        /\ optimizer' = checkpoint.optimizer_state_dict
        /\ optimizer' = optimizer
        /\ epoch' = checkpoint.epoch /\ epoch' = Len(stdout)
        /\ loss' = checkpoint.loss /\ loss' = total_loss
        /\ outputs' = checkpoint.outputs /\ outputs' = outputs
        /\ tpc' = "for_epoch"

\* C12: saving then loading is a round trip on the training state: when a
\* resume cell has loaded the snapshot, before its first training step, the
\* parameters, the optimizer state, the epoch counter, the loss and the
\* per-example outputs are those of the snapshot, which are those the
\* notebook held when the snapshot was written, though the cell constructed
\* a new model and a new optimizer before loading.
C12_SaveLoadRoundTrip ==
    /\ [] SnapshotIsLiveState
    /\ [][LoadRestores]_vars

\* A resume cell has just loaded a snapshot of two epochs of training that
\* moved the parameters away from those of a new instance.
C12_Witness ==
    /\ cell = "resume" /\ tpc = "for_epoch" /\ next_epoch = epoch
    /\ epoch = 2 /\ epochs = 3
    /\ model # LSTM(lstm_seed)
    /\ optimizer.step = 4

\* Inside an epoch: the example in hand is the one of index batch of the
\* dataset, the examples before it have had their update, the forward pass
\* and the loss come before the backward pass, and the gradients are those
\* of the example in hand alone.
SequentialState ==
    /\ tpc \in {"forward", "backward", "step"} =>
          /\ batch \in 0 .. Len(inputs) - 1
          /\ optimizer.step = Len(inputs) * Len(stdout) + batch
    /\ tpc \in {"backward", "step"} =>
          /\ output = forward(model, inputs[batch + 1])
          /\ loss = squared_error(labels[batch + 1], output)
          /\ outputs[batch + 1] = output
    /\ tpc = "step" =>
          \A name \in graph_parameters :
              grads[name] =
                  << backward(model, inputs[batch + 1], labels[batch + 1])[name] >>
    /\ tpc = "epoch_end" =>
          /\ batch = Len(inputs)
          /\ optimizer.step = Len(inputs) * (Len(stdout) + 1)
    /\ (tpc \in {"idle", "for_epoch"} /\ cell # "none") =>
          optimizer.step = Len(inputs) * Len(stdout)

\* The order of the steps on one example, and from one example to the next:
\* only the update changes the parameters, and it comes last.
SequentialStep ==
    /\ tpc = "forward" => tpc' = "backward" /\ batch' = batch /\ model' = model
    /\ tpc = "backward" => tpc' = "step" /\ batch' = batch /\ model' = model
    /\ tpc = "step" =>
          /\ batch' = batch + 1
          /\ optimizer'.step = optimizer.step + 1
          /\ tpc' = IF batch + 1 < Len(inputs) THEN "forward" ELSE "epoch_end"
    /\ optimizer' # optimizer => tpc = "step" \/ tpc = "idle"

\* C13: training is strictly sequential: in every epoch each example is
\* processed once, in the order of the dataset, and on each example the
\* forward pass and the loss come first, then the gradient reset and the
\* backward pass, then one update; after E epochs on the two examples the
\* optimizer has taken 2E steps, and no example's forward pass runs before
\* the update of the example before it.
C13_TrainingIsSequential ==
    /\ [] SequentialState
    /\ [][SequentialStep]_vars

\* The second example of the second epoch is about to have its update.
C13_Witness ==
    /\ tpc = "step" /\ batch = 1 /\ Len(stdout) = 1
    /\ optimizer.step = 3
    /\ output # 0

\* ------------------------------------------------- decoder: further claims
\* Masks for n positions: the causal one, one that disallows nothing, one
\* that disallows everything, one that disallows the past.
Masks(n) ==
    { causal_mask(n),
      Tensor([a \in 1 .. n |-> Tensor([b \in 1 .. n |-> FALSE])]),
      Tensor([a \in 1 .. n |-> Tensor([b \in 1 .. n |-> TRUE])]),
      Tensor([a \in 1 .. n |-> Tensor([b \in 1 .. n |-> b < a])]) }

\* A row of weights: no entry negative, and the sum 1 up to the rounding of
\* its entries to the grid, half a unit each.
IsDistribution(row) ==
    /\ \A b \in 1 .. Len(row) : row[b] >= 0
    /\ 2 * Abs(SumOf(row, Len(row)) - Scale) <= Len(row)

\* C14: every row of the attention weights of Attention.forward has no
\* negative entry and sums to 1 (to the rounding of the grid): the rows of
\* the forward pass just run, and the rows the same encodings give under
\* every other mask and under no mask.
C14_SoftmaxRowsSumToOne ==
    attention_percents # None =>
        /\ \A a \in 1 .. Len(attention_percents) :
              IsDistribution(attention_percents[a])
        /\ LET enc == position_encoded_of(decoder, model_input)
           IN  \A m \in Masks(Len(model_input)) \cup { None } :
                   LET percents == attention_percents_of(decoder, enc, enc, m)
                   IN  \A a \in 1 .. Len(percents) :
                           IsDistribution(percents[a])

\* A forward pass on six tokens has given the last position weights that
\* are not all equal.
C14_Witness ==
    /\ attention_percents # None
    /\ Len(attention_percents) = max_length
    /\ \E b \in 1 .. max_length :
          attention_percents[max_length][b] # attention_percents[max_length][1]
    /\ \A b \in 1 .. max_length : attention_percents[max_length][b] > 0

\* C15: the positional encoding table is a function of (d_model, max_len)
\* alone: the table of the instance in use, whatever seed it was constructed
\* under and whatever ran since, is the table of every other construction,
\* max_len rows of d_model entries.
C15_PositionEncodingDeterministic ==
    /\ decoder.pe = PositionEncoding
    /\ Len(decoder.pe) = max_len
    /\ \A row \in 1 .. max_len : Len(decoder.pe[row]) = d_model
    /\ \A s \in seed .. seed + ExtraSeeds :
          DecoderTransformer(s).pe = decoder.pe

\* predict has run on an instance whose drawn weights are not those of the
\* notebook's seed.
C15_Witness ==
    /\ dpc = "done" /\ passes > 1
    /\ decoder.we # DecoderTransformer(seed).we
    /\ decoder.W_q # DecoderTransformer(seed).W_q
    /\ decoder.pe = DecoderTransformer(seed).pe

\* ------------------------------------------------------ notebooks: claims
\* What a step may change of the models: the optimizer step of the LSTM
\* notebook changes the LSTM's parameters and nothing else does, the
\* training step of the decoder notebook changes the decoder's parameters
\* and nothing else does, no step changes the positional encoding table,
\* and the steps of forward and of predict change no parameter.
FrameStep ==
    /\ model' # model => tpc = "step" /\ optimizer'.step = optimizer.step + 1
    /\ decoder' # decoder =>
          /\ decoder_tpc = "batch"
          /\ decoder_optimizer'.step = decoder_optimizer.step + 1
    /\ decoder'.pe = decoder.pe
    /\ (pc' # pc \/ calls' # calls) => model' = model
    /\ (dpc' # dpc \/ passes' # passes) => decoder' = decoder

\* C16: parameters are changed by the optimizer only and the positional
\* encoding table is read-only after construction: a forward pass of either
\* model and a whole run of predict leave every parameter and the table as
\* they were, and an optimizer step leaves the table as it was.
C16_OnlyOptimizerWritesParameters ==
    /\ [] (decoder.pe = PositionEncoding)
    /\ [][FrameStep]_vars

\* predict has run to its end, over more than one forward pass, on a
\* decoder that optimizer steps have moved away from every construction.
C16_Witness ==
    /\ decoder_tpc = "trained" /\ dpc = "done" /\ passes > 1
    /\ decoder_optimizer.step > 2
    /\ \A s \in seed .. seed + ExtraSeeds :
          /\ decoder.fc_b # DecoderTransformer(s).fc_b
          /\ decoder.we # DecoderTransformer(s).we

\* --------------------------------------------------- recorded run: claims
\* The tolerance of the claim: 0.05.
Tolerance == Scale \div 20

\* How far the evaluated prediction for example k is from its label.
Error(k) == Abs(evaluated[k] - observed[k])

\* From one evaluation to the next no prediction moves away from its label,
\* and from one epoch to the next the loss does not rise.
MonotoneStep ==
    /\ evaluated' # evaluated =>
          \A k \in 1 .. 2 :
              Abs(evaluated'[k] - observed[k]) <= Abs(evaluated[k] - observed[k])
    /\ (Len(stdout) > 0 /\ Len(stdout') > Len(stdout)) =>
          total_loss' <= total_loss

DecoderTrainedTenEpochs ==
    /\ decoder_tpc = "trained"
    /\ decoder_epochs = 10
    /\ Len(decoder_stdout) = 10
    /\ \A k \in 1 .. 10 : decoder_stdout[k] = << k, 10 >>

\* C18: after the training cell of the decoder notebook (seed 45, Adam with
\* lr 0.1, 10 epochs), predict on what is kael <EOS> prints exactly the
\* tokens awesome, <EOS>: every step that prints a prediction for that
\* input once the training cell has run prints these two tokens.
TrainedPrediction ==
    (/\ decoder_tpc = "trained"
     /\ << caller_input, printed >>' # << caller_input, printed >>
     /\ caller_input' = what_is_kael) =>
        /\ DecoderTrainedTenEpochs
        /\ printed' = << "awesome", "<EOS>" >>

Bo1Values == { - Scale, Scale \div 2, Scale }

\* The model self with the value v for bo1 and every other parameter kept.
WithBo1(self, v) == [self EXCEPT !.bo1 = v]

\* A step of forward gives the memories that every model differing from it
\* in bo1 only gives.
StepIgnoresBo1 ==
    pc \in {"day1", "day2", "day3", "day4"} =>
        \A v \in Bo1Values :
            lstm_unit(WithBo1(model, v), day(X, DayIndex(pc)),
                      long_memory, short_memory)
                = << long_memory', short_memory' >>

\* The prediction forward has returned is that of every model differing
\* from it in bo1 only.
ResultIgnoresBo1 ==
    (pc = "idle" /\ calls > 0) =>
        \A v \in Bo1Values : forward(WithBo1(model, v), X) = result

\* C19: the output gate has no bias: two models that differ only in bo1
\* give the same memories (L', S') at every step of lstm_unit and the same
\* prediction for every input sequence.
C19_ResultIndependentOfBo1 == [] ResultIgnoresBo1 /\ [][StepIgnoresBo1]_vars

\* forward has returned a prediction, on a model of which a model with
\* another bo1 differs.
C19_Witness ==
    /\ pc = "idle"
    /\ calls > 0
    /\ Len(steps) = 4
    /\ \A v \in Bo1Values : WithBo1(model, v) # model

\* The scaled similarities of the forward pass just run: q k^T / sqrt(d).
ScaledSims ==
    LET enc == position_encoded_of(decoder, model_input)
        q == Linear(decoder.W_q, enc)
        k == Linear(decoder.W_k, enc)
    IN  Tensor([a \in 1 .. Len(q) |-> Tensor([b \in 1 .. Len(k) |->
            RDiv(Dot(q[a], k[b]) * Scale, SqrtD)])])

\* C20: in Attention.forward with a mask, the mask is applied to the scaled
\* similarities and the softmax to what it gives: every disallowed entry is
\* replaced by the constant 1e-9 (small and positive, 0 to the grid, and no
\* negative infinity), every allowed entry keeps its scaled similarity, and
\* after the softmax every disallowed weight is strictly positive.
C20_MaskFillsSmallPositive ==
    attention_percents # None =>
        LET filled == masked_fill(ScaledSims, mask)
        IN  /\ MaskNum > 0
            /\ MaskDen > 0
            /\ MaskNum * Scale < MaskDen
            /\ MaskValue >= 0
            /\ \A a \in 1 .. Len(mask) : \A b \in 1 .. Len(mask) :
                  /\ mask[a][b] => filled[a][b] = MaskValue
                  /\ ~ mask[a][b] => filled[a][b] = ScaledSims[a][b]
                  /\ mask[a][b] => attention_percents[a][b] > 0
            /\ \A a \in 1 .. Len(mask) :
                  attention_percents[a] = softmax(filled[a])

\* A forward pass has run on six tokens, with disallowed entries and with
\* allowed entries whose scaled similarity is not the fill value.
C20_Witness ==
    /\ attention_percents # None
    /\ Len(mask) = max_length
    /\ \E a \in 1 .. max_length : \E b \in 1 .. max_length : mask[a][b]
    /\ \E a \in 1 .. max_length : \E b \in 1 .. max_length :
          ~ mask[a][b] /\ ScaledSims[a][b] # MaskValue

\* ------------------------------------------------- decoder: last claims
\* What the series and the rounding of the grid may differ by from the
\* functions they stand for: a hundredth.
TableTolerance == Scale \div 100

\* The pairs (2 j, 2 j + 1) of embedding dimensions: j in 0 .. d_model / 2 - 1.
DimensionPairs == 0 .. (d_model \div 2) - 1

\* The frequency of the pair j: 1 / 10000 ^ (2 j / d_model)
Frequency(j) == div_term(2 * j)

\* Row pos of the table (position pos) holds, in the dimensions 2 j and
\* 2 j + 1, the sine and the cosine of one angle: their squares sum to 1.
OneAngle(pe, pos, j) ==
    Abs(Mul(pe[pos + 1][2 * j + 1], pe[pos + 1][2 * j + 1])
        + Mul(pe[pos + 1][2 * j + 2], pe[pos + 1][2 * j + 2]) - Scale)
        <= TableTolerance

\* The angle of position pos + 1 is that of position pos advanced by the
\* frequency: sin(a + f) = sin a cos f + cos a sin f, and likewise cos.
AngleAdvances(pe, pos, j) ==
    LET sin_a == pe[pos + 1][2 * j + 1]
        cos_a == pe[pos + 1][2 * j + 2]
        sin_f == Sin(Frequency(j))
        cos_f == Cos(Frequency(j))
    IN  /\ Abs(pe[pos + 2][2 * j + 1]
               - (Mul(sin_a, cos_f) + Mul(cos_a, sin_f))) <= TableTolerance
        /\ Abs(pe[pos + 2][2 * j + 2]
               - (Mul(cos_a, cos_f) - Mul(sin_a, sin_f))) <= TableTolerance

\* C21: the table of the positional encoding holds in its even dimensions
\* the sine and in its odd dimensions the cosine of position * frequency,
\* the dimensions 2 j and 2 j + 1 sharing the frequency 1 / 10000^(2 j / d);
\* the row of position 0 is (0, 1, 0, 1, ...); and PositionEncoding.forward
\* adds row k of the table to the embedding at position k, for every k below
\* the length of the sequence.
C21_SinusoidalTable ==
    /\ \A j \in DimensionPairs :
          /\ decoder.pe[1][2 * j + 1] = 0
          /\ decoder.pe[1][2 * j + 2] = Scale
          /\ \A pos \in 0 .. max_len - 1 :
                /\ decoder.pe[pos + 1][2 * j + 1]
                       = Sin(Mul(pos * Scale, Frequency(j)))
                /\ decoder.pe[pos + 1][2 * j + 2]
                       = Cos(Mul(pos * Scale, Frequency(j)))
                /\ OneAngle(decoder.pe, pos, j)
          /\ \A pos \in 0 .. max_len - 2 : AngleAdvances(decoder.pe, pos, j)
    /\ predictions # None =>
          LET encoded == position_encoded_of(decoder, model_input)
          IN  /\ Len(encoded) = Len(model_input)
              /\ \A k \in 1 .. Len(model_input) : \A c \in 1 .. d_model :
                    encoded[k][c] = decoder.we[model_input[k] + 1][c]
                                    + decoder.pe[k][c]

\* A forward pass has run on six tokens: every row of the table was added,
\* and the last row is not the row of position 0.
C21_Witness ==
    /\ predictions # None
    /\ Len(model_input) = max_len
    /\ decoder.pe[max_len] # decoder.pe[1]

\* The tokens emitted before the last one, and the tokens predict has
\* appended to the seed, hold no <EOS>.
EosOnlyLast ==
    dpc # "idle" =>
        /\ \A k \in 1 .. Len(predicted_ids) - 1 : predicted_ids[k] # token_to_id["<EOS>"]
        /\ \A k \in input_length + 1 .. Len(model_input) :
              model_input[k] # token_to_id["<EOS>"]
        /\ dpc = "done" =>
              \A k \in 1 .. Len(printed) - 1 : printed[k] # "<EOS>"

\* A step taken once <EOS> is predicted runs no forward pass, emits no token
\* and leaves the sequence fed to the model as it is.
EosStopsPredict ==
    (dpc \in {"loop", "print"} /\ predicted_id = token_to_id["<EOS>"]) =>
        /\ passes' = passes
        /\ predicted_ids' = predicted_ids
        /\ model_input' = model_input
        /\ predictions' = predictions

\* C23: in predict, once <EOS> is predicted no further forward pass is run
\* and no further token is emitted: <EOS> occurs in a predicted sequence as
\* its last token only, and is never appended to the sequence fed back to
\* the model.
C23_NothingAfterEos == [] EosOnlyLast /\ [][EosStopsPredict]_vars

\* predict has left its loop on <EOS>, predicted after another token, with
\* values left in the range of the loop.
C23_Witness ==
    /\ dpc = "print"
    /\ predicted_id = token_to_id["<EOS>"]
    /\ Len(predicted_ids) = 2
    /\ in_range(i)

\* C24: for a seed of n tokens, 1 <= n <= 6, every sequence predict passes
\* to the forward pass has between n and max_length = 6 tokens, no more than
\* the max_len = 6 rows of the positional encoding table; when no <EOS> is
\* ever predicted the last sequence passed has exactly max_length tokens.
C24_SequenceFitsTable ==
    /\ max_length <= max_len
    /\ Len(decoder.pe) = max_len
    /\ dpc # "idle" =>
          /\ input_length \in 1 .. max_length
          /\ Len(model_input) >= input_length
          /\ Len(model_input) <= max_length
          /\ Len(model_input) <= Len(decoder.pe)
          /\ Len(predictions) = Len(model_input)
          /\ Len(mask) = Len(model_input)
    /\ (dpc \in {"print", "done"} /\ predicted_id # token_to_id["<EOS>"]) =>
          Len(model_input) = max_length

\* predict has ended on a seed of one token without predicting <EOS>: its
\* last forward pass ran on max_length tokens.
C24_Witness ==
    /\ dpc = "done"
    /\ input_length = 1
    /\ Len(model_input) = max_length
    /\ \A k \in 1 .. Len(predicted_ids) :
          predicted_ids[k] # token_to_id["<EOS>"]

\* A step of a call of predict leaves the caller's sequence and the model
\* as they are.
CallerSequenceKept ==
    dpc # "idle" => caller_input' = caller_input /\ decoder' = decoder

\* The step that prints the tokens of a call made after another call on the
\* same sequence prints what that call printed.
PrintsTheSame ==
    (dpc = "print" /\ dpc' = "done" /\ printed # << >>) => printed' = printed

\* C25: predict leaves its caller's seed sequence unchanged, so that a call
\* of predict on the same seed, the model unchanged, emits the sequence
\* the call before it emitted.
C25_PredictRepeatable == [][CallerSequenceKept /\ PrintsTheSame]_vars

\* A second call of predict on the seed of the first, which extended its
\* own sequence by two tokens, is about to print.
C25_Witness ==
    /\ dpc = "print"
    /\ printed # << >>
    /\ Len(printed) = 3
    /\ Len(model_input) = Len(caller_input) + 2

\* id_to_token is the inverse of token_to_id, which gives no id twice.
TokenTablesInverse ==
    /\ DOMAIN id_to_token = 0 .. 4
    /\ DOMAIN id_to_token = TokenIds
    /\ \A t \in DOMAIN token_to_id :
          /\ token_to_id[t] \in DOMAIN id_to_token
          /\ id_to_token[token_to_id[t]] = t
    /\ \A k \in DOMAIN id_to_token :
          /\ id_to_token[k] \in DOMAIN token_to_id
          /\ token_to_id[id_to_token[k]] = k
    /\ \A t \in DOMAIN token_to_id : \A u \in DOMAIN token_to_id :
          token_to_id[t] = token_to_id[u] => t = u

\* C26: for the model constructed with num_tokens = len(token_to_id), every
\* token id predict emits lies in 0 .. 4 and is a key of id_to_token, so
\* that the lookup that prints the tokens never fails and prints, for each
\* id, the one token that token_to_id maps to it.
C26_EmittedIdsAreTokens ==
    /\ TokenTablesInverse
    /\ num_tokens = 5
    /\ dpc # "idle" =>
          /\ Len(predictions[Len(predictions)]) = num_tokens
          /\ \A k \in 1 .. Len(predicted_ids) :
                /\ predicted_ids[k] \in 0 .. 4
                /\ predicted_ids[k] \in DOMAIN id_to_token
    /\ dpc = "done" =>
          /\ Len(printed) = Len(predicted_ids)
          /\ \A k \in 1 .. Len(printed) :
                /\ printed[k] \in DOMAIN token_to_id
                /\ token_to_id[printed[k]] = predicted_ids[k]

\* predict has printed tokens among which are those of the least and of the
\* largest id.
C26_Witness ==
    /\ dpc = "done"
    /\ \E k \in 1 .. Len(printed) : printed[k] = "<EOS>"
    /\ \E k \in 1 .. Len(printed) : printed[k] = "what"

Tags == << "Loss/Train", "Out0/Train", "Out1/Train" >>

\* The number of steps the writer of the cell has received triples for.
WrittenSteps == Len(writer) \div 3

\* The triples the writer has received are whole groups of three, one of
\* each metric, all three at one step number, the step numbers of
\* consecutive groups increasing by 1; the first step of a training run is
\* 1; the last step is the number of epochs completed, which the checkpoint
\* holds; when the cell has ended, the last step is its number of epochs
\* (or, for a resumed run with nothing left to do, the first step).
WriterInOrder ==
    cell # "none" =>
        /\ Len(writer) = 3 * WrittenSteps
        /\ \A g \in 0 .. WrittenSteps - 1 :
              /\ \A t \in 1 .. 3 :
                    /\ Len(writer[3 * g + t]) = 3
                    /\ writer[3 * g + t][1] = Tags[t]
                    /\ writer[3 * g + t][3] = writer[1][3] + g
              /\ writer[3 * g + 1][3] >= 1
        /\ (cell = "train" /\ WrittenSteps > 0) => writer[1][3] = 1
        /\ cell = "resume" => WrittenSteps > 0
        /\ WrittenSteps > 0 => writer[Len(writer)][3] = checkpoint.epoch
        /\ (tpc = "idle" /\ cell = "train") => WrittenSteps = epochs
        /\ (tpc = "idle" /\ cell = "resume") =>
              writer[Len(writer)][3]
                  = IF epochs > writer[1][3] THEN epochs ELSE writer[1][3]

\* The step that begins a resumed run gives its new writer the loss and the
\* outputs of the checkpoint, at the checkpoint's epoch, and nothing else.
ResumeRewrites ==
    (tpc = "idle" /\ tpc' = "for_epoch" /\ cell' = "resume") =>
        writer' = << << "Loss/Train", checkpoint.loss, checkpoint.epoch >>,
                     << "Out0/Train", checkpoint.outputs[1], checkpoint.epoch >>,
                     << "Out1/Train", checkpoint.outputs[2], checkpoint.epoch >> >>

\* The step that ends an epoch writes the epoch's loss and outputs, once
\* each, at the 1-based number of the epoch.
EpochWrites ==
    (tpc = "epoch_end" /\ tpc' = "for_epoch") =>
        writer' = writer \o << << "Loss/Train", total_loss, epoch + 1 >>,
                               << "Out0/Train", outputs[1], epoch + 1 >>,
                               << "Out1/Train", outputs[2], epoch + 1 >> >>

\* No step but these two, and the one that begins the training cell with a
\* new writer, writes to the writer.
OnlyEpochsWrite ==
    (tpc # "epoch_end" /\ tpc # "idle") => writer' = writer

\* C22: the metrics sink receives (name, value, step) triples whose step is
\* the 1-based number of the epoch just completed: in one run each of
\* Loss/Train, Out0/Train and Out1/Train is written once an epoch, the
\* steps increasing by 1; a resumed run first writes the checkpoint's loss
\* and outputs at the checkpoint's epoch e and then the steps e + 1 .. N.
C22_MetricsOncePerEpoch ==
    [] WriterInOrder
    /\ [][ResumeRewrites /\ EpochWrites /\ OnlyEpochsWrite]_vars

\* A resumed run has ended that wrote the checkpoint's step and the steps
\* of two epochs of its own.
C22_Witness ==
    /\ cell = "resume"
    /\ tpc = "idle"
    /\ WrittenSteps = 3
    /\ writer[1][3] = 1
    /\ epochs = 3

\* The loss of an epoch of the LSTM notebook whose predictions are outs: the
\* sum of the squared errors of its examples.
EpochLoss(outs) ==
    SumOf(Tensor([b \in 1 .. Len(labels) |-> squared_error(labels[b], outs[b])]),
          Len(labels))

\* The accumulators of the LSTM notebook hold what the examples of the
\* epoch under way have given, and nothing of the epochs before it.
AccumulatorsOfThisEpoch ==
    /\ (tpc = "forward" /\ batch = 0) =>
          total_loss = 0 /\ outputs = << 0, 0 >>
    /\ tpc \in {"forward", "backward", "step", "epoch_end"} =>
          LET done == IF tpc = "backward" \/ tpc = "step" THEN batch + 1
                      ELSE batch
          IN  /\ total_loss =
                    SumOf(Tensor([b \in 1 .. done |->
                              squared_error(labels[b], outputs[b])]), done)
              /\ \A b \in done + 1 .. Len(labels) : outputs[b] = 0
    /\ tpc \in {"backward", "step"} =>
          /\ output = forward(model, inputs[batch + 1])
          /\ outputs[batch + 1] = output
    /\ tpc = "epoch_end" => total_loss = EpochLoss(outputs)

\* The checkpoint holds the loss and the outputs of one epoch, the last one
\* completed.
CheckpointOfLastEpoch ==
    DOMAIN checkpoint # {} =>
        /\ checkpoint.loss = EpochLoss(checkpoint.outputs)
        /\ checkpoint.epoch = stdout[Len(stdout)][1]

\* The step that ends an epoch saves the accumulators of that epoch.
SavesThisEpoch ==
    (tpc = "epoch_end" /\ tpc' = "for_epoch") =>
        /\ checkpoint'.loss = total_loss
        /\ checkpoint'.outputs = outputs
        /\ checkpoint'.epoch = epoch + 1

\* The accumulator of the decoder notebook: 0 when an epoch begins, the
\* loss of the first example after it, and each step adds the loss of its
\* example under the parameters before their update.
DecoderAccumulator ==
    /\ (decoder_tpc = "batch" /\ batch_idx = 0) => decoder_total_loss = 0
    /\ (decoder_tpc = "batch" /\ batch_idx = 1) =>
          decoder_total_loss = decoder_loss

DecoderAccumulates ==
    (decoder_tpc = "batch" /\ batch_idx' = batch_idx + 1) =>
        /\ decoder_loss' = training_loss(decoder, batch_idx + 1)
        /\ decoder_total_loss' = decoder_total_loss + decoder_loss'

\* C28: the training loops reset their accumulators when an epoch begins:
\* total_loss is 0 then and, when the epoch ends, the sum of the losses of
\* the examples of that epoch alone; outputs holds the predictions of that
\* epoch, each made before the parameter update of its example; and the
\* loss and outputs of the checkpoint are those of the last epoch
\* completed, never a total over epochs.
C28_AccumulatorsResetEachEpoch ==
    /\ [] (AccumulatorsOfThisEpoch /\ CheckpointOfLastEpoch
           /\ DecoderAccumulator)
    /\ [][SavesThisEpoch /\ DecoderAccumulates]_vars

\* The second epoch of a cell of the LSTM notebook has ended, with a loss
\* that is not 0, after a first epoch whose loss was saved.
C28_Witness ==
    /\ tpc = "epoch_end"
    /\ epoch >= 1
    /\ total_loss > 0
    /\ DOMAIN checkpoint # {}
    /\ checkpoint.loss > 0

\* A resume cell is under way or has ended whose number of epochs is no
\* more than the epoch of the checkpoint it loaded.
NothingLeftToTrain ==
    /\ cell = "resume"
    /\ Len(writer) >= 3
    /\ epochs <= writer[1][3]

\* Such a cell is at its loop or past it, with the parameters and the
\* optimizer state it loaded, the checkpoint it loaded them from, and a
\* writer that holds the three scalars of the checkpoint only.
NoEpochRun ==
    NothingLeftToTrain =>
        /\ tpc \in {"for_epoch", "idle"}
        /\ model = checkpoint.model_state_dict
        /\ optimizer.step = checkpoint.optimizer_state_dict.step
        /\ optimizer.exp_avg = checkpoint.optimizer_state_dict.exp_avg
        /\ checkpoint.epoch = writer[1][3]
        /\ Len(writer) = 3

\* A step of such a cell changes no parameter, takes no optimizer step,
\* writes no checkpoint and prints no line.
NoEpochStep ==
    (NothingLeftToTrain /\ tpc = "for_epoch") =>
        /\ tpc' = "idle"
        /\ model' = model
        /\ optimizer' = optimizer
        /\ checkpoint' = checkpoint
        /\ stdout' = stdout
        /\ writer' = writer

\* C29: resuming with a number of epochs N no more than the epoch e of the
\* checkpoint runs no epoch: no optimizer step is taken, no checkpoint is
\* written, and the checkpoint and the loaded parameters stay as they were.
C29_ResumePastTargetRunsNothing == [] NoEpochRun /\ [][NoEpochStep]_vars

\* A resume cell has ended whose number of epochs, not 0, is less than the
\* epoch of the checkpoint, which two epochs of training wrote.
C29_Witness ==
    /\ cell = "resume"
    /\ tpc = "idle"
    /\ Len(writer) = 3
    /\ writer[1][3] = 2
    /\ epochs = 1
    /\ optimizer.step = 2 * Len(inputs)

\* bo1 has the value the constructor gave it, in the model and in the
\* checkpoint; it has no gradient, and the optimizer no moment for it.
Bo1Untrained ==
    /\ model.bo1 = LSTM(lstm_seed).bo1
    /\ model.bo1 = 0
    /\ grads.bo1 = None
    /\ cell # "none" => optimizer.exp_avg.bo1 = None
    /\ DOMAIN checkpoint # {} =>
          /\ checkpoint.model_state_dict.bo1 = 0
          /\ checkpoint.optimizer_state_dict.exp_avg.bo1 = None

\* C30: training never changes the bias bo1 of the output gate: after any
\* number of epochs and resumptions it has its initial value 0.0, while the
\* other eleven parameters may change.
C30_Bo1NeverTrained == [] Bo1Untrained /\ [][model'.bo1 = model.bo1]_vars

\* A resumed run has ended after optimizer steps that changed others of
\* the parameters.
C30_Witness ==
    /\ cell = "resume"
    /\ tpc = "idle"
    /\ optimizer.step > 2 * Len(inputs)
    /\ \E name \in ParamNames \ {"bo1"} : model[name] # LSTM(lstm_seed)[name]

====
